---- MODULE Spec2Model ----
(***************************************************************************)
(* Credential & Access Control Core of ClawHospital: the token service     *)
(* (jwt.ts), the auth plugin's HTTP handlers (extensions/his-auth) and the *)
(* credential records they mutate.                                         *)
(*                                                                         *)
(* Time.  The clock counts whole seconds.  Date.now() is the clock (its    *)
(* sub-second part is taken as 0), so Math.floor(Date.now() / 1000) is the *)
(* clock itself and the 30 * 60 * 1000 ms lockout is 1800 clock units.     *)
(*                                                                         *)
(* Strings.  A token is the sequence of its characters.  Characters 0..63  *)
(* are the base64url digits (A-Z a-z 0-9 - _), DOT is ".", PLUS and SLASH  *)
(* are the "+" and "/" of standard base64 and WS is a whitespace           *)
(* character.                                                              *)
(***************************************************************************)
EXTENDS Integers, Sequences, FiniteSets, TLC

\* ------------------------------------------------------------------------
\* State
\* ------------------------------------------------------------------------
VARIABLES
    clock,      \* seconds
    ticks,      \* how many times the clock has been advanced
    users,      \* the users table: id -> row
    userRoles,  \* the user_roles join: id -> set of role codes
    resp,       \* the response to the last request handled
    issued,     \* token pairs handed out so far
    loginToken, \* per user, the refresh token of the latest successful login
    loggedOut,  \* per user, the refresh tokens handed out before a logout
    lastLock,   \* per user, the expiry of the latest lockout a failed login has set
    wire,       \* a token on its way to the token service, and where it comes from
    verdict,    \* the latest verification of the token service
    reqs,       \* the refresh requests in flight, each at its await point
    env,        \* process.env: the variables the service reads
    boot,       \* the users table as it was when the process last started
    pw,         \* an encoded hash, where it comes from, and its latest verification
    db,         \* the rbac tables: roles, permissions, role_permissions, data_access_policies
    rbac,       \* the latest rbac query against the tables as they are, and its answer
    http,       \* one request on its way through the middleware chain of a route
    audit,      \* the rows the request handled last has inserted into audit_logs
    logins,     \* the login requests in flight, each at its await point
    wrong,      \* per user, the wrong secrets verified while unlocked since the last successful login
    ended       \* per user, a logout has completed and no login has succeeded since

vars == <<clock, ticks, users, userRoles, resp, issued, loginToken, loggedOut, lastLock,
          wire, verdict, reqs, env, boot, pw, db, rbac, http, audit, logins, wrong, ended>>

\* ------------------------------------------------------------------------
\* Characters and base64url (Buffer.toString / Buffer.from "base64url")
\* ------------------------------------------------------------------------
DOT == 64
PLUS == 65
SLASH == 66
WS == 67
Chars == 0..67

\* Value of a character for the decoder, -1 for a character it skips.
\* Node's decoder accepts both alphabets and ignores whitespace.
unbase64(c) ==
    IF c < 64 THEN c
    ELSE IF c = PLUS THEN 62
    ELSE IF c = SLASH THEN 63
    ELSE -1

\* The digit values of a string, the skipped characters left out
B64Values(s) ==
    LET kept == SelectSeq(s, LAMBDA c : unbase64(c) >= 0)
    IN  [i \in 1..Len(kept) |-> unbase64(kept[i])]

Pow2(n) == IF n = 0 THEN 1 ELSE IF n = 2 THEN 4 ELSE IF n = 4 THEN 16
           ELSE IF n = 6 THEN 64 ELSE IF n = 8 THEN 256 ELSE 1024

\* Every full group of 8 bits of the 6-bit digits is a byte; the bits left
\* over at the end (the unused low bits of the last digit) are dropped
\* without any check.
DecodeValues(v) ==
    [k \in 1..((Len(v) * 6) \div 8) |->
        LET bit == (k - 1) * 8
            d == (bit \div 6) + 1
            o == bit % 6
        IN  ((v[d] * 64 + v[d + 1]) \div Pow2(4 - o)) % 256]

\* Buffer.from(s, "base64url")
B64Decode(s) == DecodeValues(B64Values(s))

\* buf.toString("base64url"): 6 bits per digit, the last digit padded with
\* zero bits, no "=" padding
base64url(b) ==
    [j \in 1..((Len(b) * 8 + 5) \div 6) |->
        LET bit == (j - 1) * 6
            q == (bit \div 8) + 1
            o == bit % 8
            next == IF q + 1 <= Len(b) THEN b[q + 1] ELSE 0
        IN  ((b[q] * 256 + next) \div Pow2(10 - o)) % 64]

\* token.split("."): the pieces between the dots
Split(s) ==
    LET dots == {i \in 1..Len(s) : s[i] = DOT}
        \* position of the k-th dot, 0 before the first and Len(s) + 1 after the last
        dot(k) == IF k = 0 THEN 0
                  ELSE IF k > Cardinality(dots) THEN Len(s) + 1
                  ELSE CHOOSE i \in dots : Cardinality({j \in dots : j <= i}) = k
    IN  [k \in 1..(Cardinality(dots) + 1) |-> SubSeq(s, dot(k - 1) + 1, dot(k) - 1)]

\* ------------------------------------------------------------------------
\* Claims payload and its JSON text
\* ------------------------------------------------------------------------
UserIds == {1}
StaffIdOf(u) == 10 + u
UsernameOf(u) == 20 + u
RoleCodes == {"physician", "admin"}
RoleSets == {{}, {"physician"}, {"physician", "admin"}}

RoleBit(r) == IF r = "physician" THEN 1 ELSE 2
RolesByte(rs) ==
    (IF "physician" \in rs THEN 1 ELSE 0) + (IF "admin" \in rs THEN 2 ELSE 0)
ByteRoles(b) == {r \in RoleCodes : (b \div RoleBit(r)) % 2 = 1}

TypeByte(t) == IF t = "access" THEN 1 ELSE IF t = "refresh" THEN 2 ELSE 0
ByteType(b) == IF b = 1 THEN "access" ELSE IF b = 2 THEN "refresh" ELSE "none"

Num3(n) == <<n \div 65536, (n \div 256) % 256, n % 256>>
UnNum3(b, i) == (b[i] * 256 + b[i + 1]) * 256 + b[i + 2]

\* JSON.stringify of a payload: the text of the fields, in order.  A payload
\* of the older format has no type field (type "none").
JSONstringify(p) ==
    <<p.sub, p.staffId, p.username, RolesByte(p.roles), TypeByte(p.type)>>
        \o Num3(p.iat) \o Num3(p.exp)

\* JSON.parse: <<payload>>, or <<>> where JSON.parse throws.
JSONparse(b) ==
    IF Len(b) # 11 \/ b[4] > 3 \/ b[5] > 2 THEN <<>>
    ELSE << [sub |-> b[1], staffId |-> b[2], username |-> b[3],
             roles |-> ByteRoles(b[4]), type |-> ByteType(b[5]),
             iat |-> UnNum3(b, 6), exp |-> UnNum3(b, 9)] >>

\* ------------------------------------------------------------------------
\* Token service (jwt.ts)
\* ------------------------------------------------------------------------
ACCESS_TOKEN_TTL == 60 * 60
REFRESH_TOKEN_TTL == 60 * 60 * 24 * 7

\* process.env.CLAWHOSPITAL_JWT_SECRET: <<>> when unset or empty
SecretValue == 4242
NoSecret == <<>>

\* getSecret() throws when the variable is unset, and returns it otherwise
getSecretThrows == env.CLAWHOSPITAL_JWT_SECRET = NoSecret
getSecret == env.CLAWHOSPITAL_JWT_SECRET[1]

\* base64url(JSON.stringify({ alg: "HS256", typ: "JWT" })), abbreviated to
\* its first characters "eyJ"
JwtHeader == <<30, 50, 9>>

\* HMAC-SHA256 as a keyed digest of two bytes.  Over the strings of the model
\* it changes whenever one character of the data changes (31 is odd).
RECURSIVE Digest(_, _, _)
Digest(data, i, h) ==
    IF i > Len(data) THEN h
    ELSE Digest(data, i + 1, (h * 31 + data[i] + 1) % 65536)

hmacSign(data, secret) ==
    LET h == Digest(data, 1, secret)
    IN  base64url(<<h \div 256, h % 256>>)

signJwt(payload) ==
    LET header == JwtHeader
        body == base64url(JSONstringify(payload))
        signature == hmacSign(header \o <<DOT>> \o body, getSecret)
    IN  header \o <<DOT>> \o body \o <<DOT>> \o signature

\* Whether the signature segment of a three-part token decodes to the bytes
\* of the expected signature
SignatureMatches(parts) ==
    LET sigBuf == B64Decode(parts[3])
        expectedBuf == B64Decode(hmacSign(parts[1] \o <<DOT>> \o parts[2], getSecret))
    IN  Len(sigBuf) = Len(expectedBuf) /\ sigBuf = expectedBuf

\* Whether the try block of decodeAndVerify throws: getSecret() without a
\* secret, or JSON.parse on a body that is no JSON text
tryThrows(token, now) ==
    LET parts == Split(token)
    IN  /\ Len(parts) = 3
        /\ \/ getSecretThrows
           \/ SignatureMatches(parts) /\ JSONparse(B64Decode(parts[2])) = <<>>

decodeAndVerifyThrows_uncaught(token, now) == tryThrows(token, now)

\* Whether decodeAndVerify throws: its catch clause takes every exception of
\* the try block
decodeAndVerifyThrows(token, now) == FALSE

\* <<payload>> or <<>> (null) at clock value now
decodeAndVerify(token, now) ==
    LET parts == Split(token)
    IN  IF Len(parts) # 3 THEN <<>>
        ELSE IF getSecretThrows THEN <<>>
        ELSE
          LET header == parts[1]
              body == parts[2]
              signature == parts[3]
              expectedSig == hmacSign(header \o <<DOT>> \o body, getSecret)
              sigBuf == B64Decode(signature)
              expectedBuf == B64Decode(expectedSig)
          IN  IF Len(sigBuf) # Len(expectedBuf) \/ sigBuf # expectedBuf THEN <<>>
              ELSE
                LET payload == JSONparse(B64Decode(body))
                IN  IF payload = <<>> THEN <<>>
                    ELSE IF payload[1].exp < now THEN <<>>
                    ELSE payload

\* claims: [sub, staffId, username, roles]
generateAccessToken(claims, now) ==
    signJwt([sub |-> claims.sub, staffId |-> claims.staffId,
             username |-> claims.username, roles |-> claims.roles,
             type |-> "access", iat |-> now, exp |-> now + ACCESS_TOKEN_TTL])

generateRefreshToken_hour(claims, now) ==
    signJwt([sub |-> claims.sub, staffId |-> claims.staffId,
             username |-> claims.username, roles |-> claims.roles,
             type |-> "refresh", iat |-> now, exp |-> now + ACCESS_TOKEN_TTL])

generateRefreshToken(claims, now) ==
    signJwt([sub |-> claims.sub, staffId |-> claims.staffId,
             username |-> claims.username, roles |-> claims.roles,
             type |-> "refresh", iat |-> now, exp |-> now + REFRESH_TOKEN_TTL])

generateTokenPair(claims, now) ==
    [accessToken |-> generateAccessToken(claims, now),
     refreshToken |-> generateRefreshToken(claims, now),
     expiresIn |-> ACCESS_TOKEN_TTL]

\* The access token of the older token format (no type field)
generateAccessTokenLegacy(claims, now) ==
    signJwt([sub |-> claims.sub, staffId |-> claims.staffId,
             username |-> claims.username, roles |-> claims.roles,
             type |-> "none", iat |-> now, exp |-> now + ACCESS_TOKEN_TTL])

verifyToken_anyKind(token, now) == decodeAndVerify(token, now)

verifyToken(token, now) ==
    LET payload == decodeAndVerify(token, now)
    IN  IF payload = <<>> THEN <<>>
        ELSE IF payload[1].type # "none" /\ payload[1].type # "access" THEN <<>>
        ELSE payload

\* Nothing but decodeAndVerify can throw in verifyToken and verifyRefreshToken
verifyTokenThrows(token, now) == decodeAndVerifyThrows(token, now)
verifyRefreshTokenThrows(token, now) == decodeAndVerifyThrows(token, now)

verifyRefreshToken(token, now) ==
    LET payload == decodeAndVerify(token, now)
    IN  IF payload = <<>> THEN <<>>
        ELSE IF payload[1].type # "refresh" THEN <<>>
        ELSE payload

ClaimsOf(u, rs) ==
    [sub |-> u, staffId |-> StaffIdOf(u), username |-> UsernameOf(u), roles |-> rs]

\* ------------------------------------------------------------------------
\* Password credential store (password.ts)
\* ------------------------------------------------------------------------
\* Salt and derived key are 32 and 64 bytes; the model keeps one byte in
\* sixteen of each, which leaves the base64url texts their unused low bits
\* (two for the salt, four for the key).
BytesPerModelByte == 16
SALT_LENGTH == 32 \div BytesPerModelByte
KEY_LENGTH == 64 \div BytesPerModelByte
SCRYPT_N == 16384
SCRYPT_r == 8
SCRYPT_p == 1

\* The seeds of the salts randomBytes draws, and the secrets clients type
InitialSalt == 1
Salts == {2}
Secrets == {"correct-horse", "new-passw0rd"}
NewSecrets == {"new-passw0rd", "short"}

\* randomBytes(n): n bytes, here the ones the seed stands for
randomBytes(n, seed) == [i \in 1..n |-> (seed * 37 + i * 11) % 256]

\* The UTF-8 bytes of a secret (its first and last characters and its length
\* are what tell the secrets of the model apart)
utf8(password) ==
    IF password = "correct-horse" THEN <<99, 111, 114, 101, 13>>
    ELSE IF password = "new-passw0rd" THEN <<110, 101, 119, 100, 12>>
    ELSE IF password = "short" THEN <<115, 104, 111, 116, 5>>
    ELSE <<>>

\* String(n) for n >= 0, and parseInt(text, 10): the number the leading
\* decimal digits spell, NaN when there is none.  The character of a decimal
\* digit d is 52 + d.
NaN == -1
RECURSIVE DecimalText(_)
DecimalText(n) == IF n < 10 THEN <<52 + n>> ELSE DecimalText(n \div 10) \o <<52 + (n % 10)>>

RECURSIVE ParseDigits(_, _, _)
ParseDigits(text, i, acc) ==
    IF i > Len(text) \/ text[i] < 52 \/ text[i] > 61 THEN acc
    ELSE ParseDigits(text, i + 1, acc * 10 + (text[i] - 52))

parseInt(text) ==
    IF Len(text) = 0 \/ text[1] < 52 \/ text[1] > 61 THEN NaN ELSE ParseDigits(text, 1, 0)

\* crypto.scrypt rejects cost parameters that are no numbers, an N that is
\* not a power of two above 1, r or p below 1, and a cost above its memory
\* limit (32 MiB by default)
SCRYPT_MAXMEM == 32 * 1024 * 1024
IsPowerOfTwo(n) == \E k \in 1..30 : 2^k = n
scryptThrows(N, r, p) ==
    \/ N = NaN \/ r = NaN \/ p = NaN
    \/ ~IsPowerOfTwo(N)
    \/ r < 1 \/ p < 1
    \/ N > SCRYPT_MAXMEM \div (128 * r)

\* crypto.scrypt as a key derivation without collisions over the inputs of
\* the model: keylen bytes that depend on every input
scrypt(password, salt, keylen, N, r, p) ==
    LET seed == Digest(password \o salt \o <<N % 256, r, p>>, 1, N \div 256)
    IN  [i \in 1..keylen |-> (seed \div 256 + (seed % 256) * i) % 256]

hashPassword_otherSalt(password, seed) ==
    LET salt == randomBytes(SALT_LENGTH, seed)
        hash == scrypt(utf8(password), salt, KEY_LENGTH, SCRYPT_N, SCRYPT_r, SCRYPT_p)
    IN  <<"scrypt", DecimalText(SCRYPT_N), DecimalText(SCRYPT_r), DecimalText(SCRYPT_p),
          base64url(randomBytes(SALT_LENGTH, seed + 1)), base64url(hash)>>

\* The stored string scrypt:N:r:p:salt:hash as the list of its fields
\* between the colons.
hashPassword(password, seed) ==
    LET salt == randomBytes(SALT_LENGTH, seed)
        hash == scrypt(utf8(password), salt, KEY_LENGTH, SCRYPT_N, SCRYPT_r, SCRYPT_p)
    IN  <<"scrypt", DecimalText(SCRYPT_N), DecimalText(SCRYPT_r), DecimalText(SCRYPT_p),
          base64url(salt), base64url(hash)>>

\* Whether the promise of verifyPassword rejects: scrypt throws in the
\* promise's executor
verifyPasswordThrows(password, storedHash) ==
    /\ Len(storedHash) = 6
    /\ storedHash[1] = "scrypt"
    /\ scryptThrows(parseInt(storedHash[2]), parseInt(storedHash[3]), parseInt(storedHash[4]))

\* What the promise of verifyPassword resolves to, when it does
verifyPassword(password, storedHash) ==
    IF storedHash[1] # "scrypt" \/ Len(storedHash) # 6 THEN FALSE
    ELSE LET N == parseInt(storedHash[2])
             r == parseInt(storedHash[3])
             p == parseInt(storedHash[4])
             salt == B64Decode(storedHash[5])
             expected == B64Decode(storedHash[6])
             actual == scrypt(utf8(password), salt, Len(expected), N, r, p)
         IN  actual = expected

\* null of a timestamp column and of the refresh_token column
NoTime == -1
NoToken == <<>>

MAX_ATTEMPTS == 5
LOCK_SECONDS == (30 * 60 * 1000) \div 1000
MIN_PASSWORD_LENGTH == 8

\* Bounds of the exploration
MaxTicks == 1
MaxIssued == 2
MaxFailed == 1
MaxLockFailed == 6
MaxLockTicks == 2
MaxTokenTicks == 2
MaxRequests == 2
MaxConcTicks == 1
TickSteps == {1, ACCESS_TOKEN_TTL, REFRESH_TOKEN_TTL}
LockTickSteps == {1, LOCK_SECONDS, ACCESS_TOKEN_TTL}
UnknownUsername == 0
Usernames == {UsernameOf(u) : u \in UserIds} \cup {UnknownUsername}

NoWire == [tok |-> NoToken, kind |-> "none", iat |-> NoTime, expiresIn |-> 0, edit |-> 0]
NoVerdict ==
    [as |-> "none", tok |-> NoToken, edit |-> 0, at |-> NoTime, payload |-> <<>>,
     threw |-> FALSE]

\* ------------------------------------------------------------------------
\* Role-based access control (rbac.ts over the tables of schema/auth.ts)
\* ------------------------------------------------------------------------

RoleIds == {1, 2}
PermissionIds == {1, 2, 3}
PolicyIds == {1, 2}
Resources == {"orders", "emr"}
Actions == {"create", "read"}

\* The rows of DEFAULT_PERMISSIONS the model keeps; (emr, create) has no row.
DEFAULT_PERMISSIONS ==
    {[id |-> 1, resource |-> "orders", action |-> "create"],
     [id |-> 2, resource |-> "orders", action |-> "read"],
     [id |-> 3, resource |-> "emr", action |-> "read"]}

DEFAULT_ROLES ==
    {[id |-> 1, code |-> "physician"], [id |-> 2, code |-> "admin"]}

SeededDb ==
    [roles |-> DEFAULT_ROLES,
     permissions |-> DEFAULT_PERMISSIONS,
     rolePermissions |-> {},
     dataAccessPolicies |-> {}]

\* AccessContext.roleCodes and PermissionCheck, as a route hands them in.
Contexts == {[userId |-> 1, roleCodes |-> rs] : rs \in RoleSets}
PermissionChecks == {[resource |-> r, action |-> a] : r \in Resources, a \in Actions}

\* inArray(column, values): the row's value is one of the values.
inArray(value, values) == value \in values

hasPermission_anyAction(ctx, check) ==
    LET result == {p \in db.permissions :
                      \E rp \in db.rolePermissions, r \in db.roles :
                          /\ rp.permissionId = p.id
                          /\ r.id = rp.roleId
                          /\ inArray(r.code, ctx.roleCodes)
                          /\ p.resource = check.resource}
    IN  result # {}

\* SELECT permissions.id FROM permissions JOIN role_permissions JOIN roles
\* WHERE roles.code IN ctx.roleCodes AND resource = .. AND action = .. LIMIT 1
hasPermission(ctx, check) ==
    LET result == {p \in db.permissions :
                      \E rp \in db.rolePermissions, r \in db.roles :
                          /\ rp.permissionId = p.id
                          /\ r.id = rp.roleId
                          /\ inArray(r.code, ctx.roleCodes)
                          /\ p.resource = check.resource
                          /\ p.action = check.action}
    IN  result # {}

ScopeTypes == {"all", "own_department", "own_patients", "specific_departments"}
ScopeValues == {"none", "dept-7"}
NoScope == <<>>

scopePriority_reversed ==
    <<"specific_departments", "own_patients", "own_department", "all">>

scopePriority == <<"all", "own_department", "own_patients", "specific_departments">>

\* Array.prototype.indexOf: the 0-based position of the first match, or -1.
indexOf(array, x) ==
    IF \E i \in 1..Len(array) : array[i] = x
    THEN (CHOOSE i \in 1..Len(array) :
              array[i] = x /\ \A j \in 1..(i - 1) : array[j] # x) - 1
    ELSE -1

\* The comparator getDataScope passes to sort.
compareScope(a, b) ==
    indexOf(scopePriority, a.scopeType) - indexOf(scopePriority, b.scopeType)

\* Array.prototype.sort with that comparator: stable, so a row is moved
\* in front of the rows that compare greater and behind those that compare equal.
RECURSIVE insertSorted(_, _)
insertSorted(sorted, row) ==
    IF sorted = <<>> THEN <<row>>
    ELSE IF compareScope(row, sorted[Len(sorted)]) >= 0 THEN Append(sorted, row)
    ELSE Append(insertSorted(SubSeq(sorted, 1, Len(sorted) - 1), row), sorted[Len(sorted)])

RECURSIVE sort(_)
sort(array) ==
    IF array = <<>> THEN <<>>
    ELSE insertSorted(sort(SubSeq(array, 1, Len(array) - 1)), array[Len(array)])

ApplicablePolicies_anyRole(ctx, resource) ==
    {p \in db.dataAccessPolicies : p.resource = resource}

\* The rows the second query of getDataScope selects.
ApplicablePolicies(ctx, resource) ==
    LET roleIds == {r.id : r \in {x \in db.roles : inArray(x.code, ctx.roleCodes)}}
    IN  {p \in db.dataAccessPolicies : inArray(p.roleId, roleIds) /\ p.resource = resource}

\* The orders in which a query without ORDER BY may hand back a set of rows.
RowOrders(rows) ==
    {order \in [1..Cardinality(rows) -> rows] :
        \A i, j \in 1..Cardinality(rows) : i # j => order[i] # order[j]}

\* getDataScope once the rows of its second query have come back in some order.
getDataScope(ctx, resource, policies) ==
    LET roleRecords == {r \in db.roles : inArray(r.code, ctx.roleCodes)}
    IN  IF roleRecords = {} THEN NoScope
        ELSE IF policies = <<>> THEN NoScope
        ELSE LET best == sort(policies)[1]
             IN  <<[scopeType |-> best.scopeType, scopeValue |-> best.scopeValue]>>

NoQuery ==
    [fn |-> "none", ctx |-> [userId |-> 1, roleCodes |-> {}],
     check |-> [resource |-> "", action |-> ""], result |-> <<>>]

\* ------------------------------------------------------------------------
\* Express middleware (middleware.ts): a request and the chain of its route
\* ------------------------------------------------------------------------
NoCheck == [resource |-> "", action |-> ""]

\* status 0: no response sent yet. at: the middleware whose turn it is.
NoHttp ==
    [chain |-> <<>>, check |-> NoCheck, at |-> 0, authorization |-> <<>>,
     user |-> <<>>, accessContext |-> <<>>, status |-> 0, error |-> "",
     authenticated |-> FALSE, consulted |-> FALSE, handled |-> FALSE]

\* router.post(path, authenticate, authorize(check), handler), and a route
\* that was given authorize without authenticate.
Chains == {<<"authenticate", "authorize", "handler">>, <<"authorize", "handler">>}
Schemes == {"Bearer ", "Basic "}

\* next(): the following middleware of the chain gets the request.
next(req) == [req EXCEPT !.at = @ + 1]

\* res.status(code).json({error}): the response is sent, the chain ends.
Respond(req, code, error) == [req EXCEPT !.status = code, !.error = error]

\* authenticate that also wants the account of the token active and logged in
authenticate_checksRecord(req, now) ==
    IF req.authorization = <<>> \/ req.authorization[1] # "Bearer "
    THEN Respond(req, 401, "Missing or invalid Authorization header")
    ELSE LET payload == verifyToken(req.authorization[2], now)
         IN  IF payload = <<>>
             THEN Respond(req, 401, "Invalid or expired token")
             ELSE IF ~users[payload[1].sub].isActive
                     \/ users[payload[1].sub].refreshToken = NoToken
             THEN Respond(req, 401, "Invalid or expired token")
             ELSE next([req EXCEPT
                          !.user = payload,
                          !.accessContext = <<[userId |-> payload[1].sub,
                                               roleCodes |-> payload[1].roles]>>,
                          !.authenticated = TRUE])

authenticate(req, now) ==
    IF req.authorization = <<>> \/ req.authorization[1] # "Bearer "
    THEN Respond(req, 401, "Missing or invalid Authorization header")
    ELSE LET payload == verifyToken(req.authorization[2], now)
         IN  IF payload = <<>>
             THEN Respond(req, 401, "Invalid or expired token")
             ELSE next([req EXCEPT
                          !.user = payload,
                          !.accessContext = <<[userId |-> payload[1].sub,
                                               roleCodes |-> payload[1].roles]>>,
                          !.authenticated = TRUE])

authorize_unguarded(check, req) ==
    LET ctx == IF req.accessContext = <<>> THEN [userId |-> 0, roleCodes |-> {}]
               ELSE req.accessContext[1]
    IN  IF ~hasPermission(ctx, check)
        THEN Respond([req EXCEPT !.consulted = TRUE], 403, "Forbidden")
        ELSE next([req EXCEPT !.consulted = TRUE])

authorize(check, req) ==
    IF req.accessContext = <<>> THEN Respond(req, 401, "Not authenticated")
    ELSE IF ~hasPermission(req.accessContext[1], check)
    THEN Respond([req EXCEPT !.consulted = TRUE], 403, "Forbidden")
    ELSE next([req EXCEPT !.consulted = TRUE])

\* The business handler of the route.
handler(req) == Respond([req EXCEPT !.handled = TRUE], 200, "")

NoPw ==
    [stored |-> <<>>, kind |-> "none", secret |-> "", tried |-> "",
     result |-> FALSE, threw |-> FALSE]

Requests == 1..MaxRequests
NoRequest ==
    [pc |-> "idle", tok |-> NoToken, sub |-> 0, pair |-> <<>>, status |-> 0, error |-> ""]

\* user: the row as the request has read it
NoLogin ==
    [pc |-> "idle", username |-> UnknownUsername, password |-> "", sub |-> 0,
     user |-> <<>>, valid |-> FALSE, status |-> 0, error |-> "", pair |-> <<>>]

\* currentPassword, newPassword: the body of a password change that went through
NoResp ==
    [op |-> "none", status |-> 0, error |-> "", sub |-> 0,
     lockedUntil |-> NoTime, pair |-> <<>>, token |-> NoToken,
     currentPassword |-> "", newPassword |-> ""]

Init ==
    /\ clock = 0
    /\ ticks = 0
    /\ users = [u \in UserIds |->
                  [isActive |-> TRUE,
                   passwordHash |-> hashPassword("correct-horse", InitialSalt),
                   lastLoginAt |-> NoTime,
                   failedLoginAttempts |-> 0,
                   lockedUntil |-> NoTime,
                   refreshToken |-> NoToken]]
    /\ userRoles = [u \in UserIds |-> IF u = 1 THEN {"physician"} ELSE {"physician", "admin"}]
    /\ resp = NoResp
    /\ issued = {}
    /\ loginToken = [u \in UserIds |-> NoToken]
    /\ loggedOut = [u \in UserIds |-> {}]
    /\ lastLock = [u \in UserIds |-> NoTime]
    /\ wire = NoWire
    /\ verdict = NoVerdict
    /\ reqs = [r \in Requests |-> NoRequest]
    /\ env = [CLAWHOSPITAL_JWT_SECRET |-> <<SecretValue>>]
    /\ boot = users
    /\ pw = NoPw
    /\ db = SeededDb
    /\ rbac = NoQuery
    /\ http = NoHttp
    /\ audit = <<>>
    /\ logins = [r \in Requests |-> NoLogin]
    /\ wrong = [u \in UserIds |-> 0]
    /\ ended = [u \in UserIds |-> FALSE]

\* Tokens a client can present: the ones handed out, and for each the same
\* token with the unused low bits of its last signature character changed.
Twiddle(tok) ==
    [tok EXCEPT ![Len(tok)] = (tok[Len(tok)] \div 4) * 4 + ((tok[Len(tok)] + 1) % 4)]
HandedOut == UNION {{i.accessToken, i.refreshToken} : i \in issued}
Presentable == HandedOut \cup {Twiddle(i.refreshToken) : i \in issued}

\* What res.writeHead / res.end put on the wire of a response: the status and
\* the JSON body, without the fields the model keeps about the request.
Sent(r) == [status |-> r.status, error |-> r.error, lockedUntil |-> r.lockedUntil,
            pair |-> r.pair]

\* A handler's result: its response, the users table it leaves and the rows
\* it has inserted into audit_logs
Result(r, table) == [resp |-> r, users |-> table, audit |-> <<>>]

\* writeAuditLog(ctx, entry): the row it inserts; channel is "web" throughout
writeAuditLog(ctx, entry) ==
    [operatorId |-> ctx.operatorId, operatorName |-> ctx.operatorName,
     action |-> entry.action, resourceType |-> entry.resourceType]

Audited_skipped(result, row) == result

\* A result whose handler has awaited an audit insert before it answers
Audited(result, row) == [result EXCEPT !.audit = Append(@, row)]

\* ------------------------------------------------------------------------
\* POST /api/auth/login
\* ------------------------------------------------------------------------
\* select ... where username = ? and is_active = true limit 1
FindActiveByUsername(username) ==
    {u \in UserIds : UsernameOf(u) = username /\ users[u].isActive}

LockedOut_whileSet(user, now) == user.lockedUntil # NoTime

LockedOut(user, now) == user.lockedUntil # NoTime /\ user.lockedUntil > now

FailedUpdates_above(user, now) ==
    LET attempts == user.failedLoginAttempts + 1
    IN  IF attempts > MAX_ATTEMPTS
        THEN [user EXCEPT !.failedLoginAttempts = attempts,
                          !.lockedUntil = now + LOCK_SECONDS]
        ELSE [user EXCEPT !.failedLoginAttempts = attempts]

\* A failed verification that starts the count again once a lockout is over
FailedUpdates_expiryResets(user, now) ==
    LET expired == user.lockedUntil # NoTime /\ user.lockedUntil <= now
        attempts == (IF expired THEN 0 ELSE user.failedLoginAttempts) + 1
    IN  IF attempts >= MAX_ATTEMPTS
        THEN [user EXCEPT !.failedLoginAttempts = attempts,
                          !.lockedUntil = now + LOCK_SECONDS]
        ELSE [user EXCEPT !.failedLoginAttempts = attempts]

\* The row after a failed password verification at time now
FailedUpdates(user, now) ==
    LET attempts == user.failedLoginAttempts + 1
    IN  IF attempts >= MAX_ATTEMPTS
        THEN [user EXCEPT !.failedLoginAttempts = attempts,
                          !.lockedUntil = now + LOCK_SECONDS]
        ELSE [user EXCEPT !.failedLoginAttempts = attempts]

LoginUpdates_keepLock(user, tokens, now) ==
    [user EXCEPT !.refreshToken = tokens.refreshToken,
                 !.lastLoginAt = now,
                 !.failedLoginAttempts = 0]

\* The row after a successful login at time now
LoginUpdates(user, tokens, now) ==
    [user EXCEPT !.refreshToken = tokens.refreshToken,
                 !.lastLoginAt = now,
                 !.failedLoginAttempts = 0,
                 !.lockedUntil = NoTime]

LoginResult_unknownUser(username, password) ==
    LET found == FindActiveByUsername(username)
        base == [NoResp EXCEPT !.op = "login"]
    IN  IF found = {} THEN
            Result([base EXCEPT !.status = 404, !.error = "User not found"], users)
        ELSE
          LET u == CHOOSE x \in found : TRUE
              user == users[u]
          IN  IF LockedOut(user, clock) THEN
                  Result([base EXCEPT !.status = 423, !.sub = u,
                                      !.error = "Account temporarily locked",
                                      !.lockedUntil = user.lockedUntil], users)
              ELSE IF verifyPasswordThrows(password, user.passwordHash) THEN
                  Result([base EXCEPT !.status = 500, !.sub = u,
                                      !.error = "Internal server error"], users)
              ELSE IF ~verifyPassword(password, user.passwordHash) THEN
                  Result([base EXCEPT !.status = 401, !.sub = u,
                                      !.error = "Invalid credentials"],
                         [users EXCEPT ![u] = FailedUpdates(user, clock)])
              ELSE IF getSecretThrows THEN
                  \* generateTokenPair throws and the handler's catch answers
                  Result([base EXCEPT !.status = 500, !.sub = u,
                                      !.error = "Internal server error"], users)
              ELSE
                  LET tokens == generateTokenPair(ClaimsOf(u, userRoles[u]), clock)
                  IN  Audited(
                          Result([base EXCEPT !.status = 200, !.sub = u, !.pair = <<tokens>>],
                                 [users EXCEPT ![u] = LoginUpdates(user, tokens, clock)]),
                          writeAuditLog([operatorId |-> u, operatorName |-> UsernameOf(u)],
                                        [action |-> "login", resourceType |-> "auth"]))

LoginResult_countsWhileLocked(username, password) ==
    LET found == FindActiveByUsername(username)
        base == [NoResp EXCEPT !.op = "login"]
    IN  IF found = {} THEN
            Result([base EXCEPT !.status = 401, !.error = "Invalid credentials"], users)
        ELSE
          LET u == CHOOSE x \in found : TRUE
              user == users[u]
          IN  IF LockedOut(user, clock) THEN
                  Result([base EXCEPT !.status = 423, !.sub = u,
                                      !.error = "Account temporarily locked",
                                      !.lockedUntil = user.lockedUntil],
                         [users EXCEPT ![u] = FailedUpdates(user, clock)])
              ELSE IF verifyPasswordThrows(password, user.passwordHash) THEN
                  Result([base EXCEPT !.status = 500, !.sub = u,
                                      !.error = "Internal server error"], users)
              ELSE IF ~verifyPassword(password, user.passwordHash) THEN
                  Result([base EXCEPT !.status = 401, !.sub = u,
                                      !.error = "Invalid credentials"],
                         [users EXCEPT ![u] = FailedUpdates(user, clock)])
              ELSE IF getSecretThrows THEN
                  \* generateTokenPair throws and the handler's catch answers
                  Result([base EXCEPT !.status = 500, !.sub = u,
                                      !.error = "Internal server error"], users)
              ELSE
                  LET tokens == generateTokenPair(ClaimsOf(u, userRoles[u]), clock)
                  IN  Audited(
                          Result([base EXCEPT !.status = 200, !.sub = u, !.pair = <<tokens>>],
                                 [users EXCEPT ![u] = LoginUpdates(user, tokens, clock)]),
                          writeAuditLog([operatorId |-> u, operatorName |-> UsernameOf(u)],
                                        [action |-> "login", resourceType |-> "auth"]))

LoginResult(username, password) ==
    LET found == FindActiveByUsername(username)
        base == [NoResp EXCEPT !.op = "login"]
    IN  IF found = {} THEN
            Result([base EXCEPT !.status = 401, !.error = "Invalid credentials"], users)
        ELSE
          LET u == CHOOSE x \in found : TRUE
              user == users[u]
          IN  IF LockedOut(user, clock) THEN
                  Result([base EXCEPT !.status = 423, !.sub = u,
                                      !.error = "Account temporarily locked",
                                      !.lockedUntil = user.lockedUntil], users)
              ELSE IF verifyPasswordThrows(password, user.passwordHash) THEN
                  Result([base EXCEPT !.status = 500, !.sub = u,
                                      !.error = "Internal server error"], users)
              ELSE IF ~verifyPassword(password, user.passwordHash) THEN
                  Result([base EXCEPT !.status = 401, !.sub = u,
                                      !.error = "Invalid credentials"],
                         [users EXCEPT ![u] = FailedUpdates(user, clock)])
              ELSE IF getSecretThrows THEN
                  \* generateTokenPair throws and the handler's catch answers
                  Result([base EXCEPT !.status = 500, !.sub = u,
                                      !.error = "Internal server error"], users)
              ELSE
                  LET tokens == generateTokenPair(ClaimsOf(u, userRoles[u]), clock)
                  IN  Audited(
                          Result([base EXCEPT !.status = 200, !.sub = u, !.pair = <<tokens>>],
                                 [users EXCEPT ![u] = LoginUpdates(user, tokens, clock)]),
                          writeAuditLog([operatorId |-> u, operatorName |-> UsernameOf(u)],
                                        [action |-> "login", resourceType |-> "auth"]))

\* ------------------------------------------------------------------------
\* POST /api/auth/refresh
\* ------------------------------------------------------------------------
FindActiveById_any(id) == {u \in UserIds : u = id}

\* select ... where id = ? and is_active = true limit 1
FindActiveById(id) == {u \in UserIds : u = id /\ users[u].isActive}

SlotMatches_anySlot(user, refreshToken) == user.refreshToken # NoToken

\* The stored slot must be the presented string itself
SlotMatches(user, refreshToken) == user.refreshToken = refreshToken

\* The row after a rotation
RefreshUpdates(user, tokens) == [user EXCEPT !.refreshToken = tokens.refreshToken]

RefreshResult_tokenRoles(refreshToken, now) ==
    LET base == [NoResp EXCEPT !.op = "refresh"]
        payload == verifyRefreshToken(refreshToken, now)
    IN  IF payload = <<>> THEN
            Result([base EXCEPT !.status = 401,
                                !.error = "Invalid or expired refresh token"], users)
        ELSE
          LET found == FindActiveById(payload[1].sub)
          IN  IF found = {} \/ ~SlotMatches(users[payload[1].sub], refreshToken) THEN
                  Result([base EXCEPT !.status = 401, !.sub = payload[1].sub,
                                      !.error = "Refresh token revoked or invalid"], users)
              ELSE
                  LET u == payload[1].sub
                      tokens == generateTokenPair(ClaimsOf(u, payload[1].roles), now)
                  IN  Result([base EXCEPT !.status = 200, !.sub = u, !.pair = <<tokens>>,
                                          !.token = refreshToken],
                             [users EXCEPT ![u] = RefreshUpdates(users[u], tokens)])

RefreshResult_lockChecked(refreshToken, now) ==
    LET base == [NoResp EXCEPT !.op = "refresh"]
        payload == verifyRefreshToken(refreshToken, now)
    IN  IF payload = <<>> THEN
            Result([base EXCEPT !.status = 401,
                                !.error = "Invalid or expired refresh token"], users)
        ELSE
          LET found == FindActiveById(payload[1].sub)
          IN  IF found = {} \/ ~SlotMatches(users[payload[1].sub], refreshToken)
                     \/ LockedOut(users[payload[1].sub], now) THEN
                  Result([base EXCEPT !.status = 401, !.sub = payload[1].sub,
                                      !.error = "Refresh token revoked or invalid"], users)
              ELSE
                  LET u == payload[1].sub
                      tokens == generateTokenPair(ClaimsOf(u, userRoles[u]), now)
                  IN  Result([base EXCEPT !.status = 200, !.sub = u, !.pair = <<tokens>>,
                                          !.token = refreshToken],
                             [users EXCEPT ![u] = RefreshUpdates(users[u], tokens)])

RefreshResult(refreshToken, now) ==
    LET base == [NoResp EXCEPT !.op = "refresh"]
        payload == verifyRefreshToken(refreshToken, now)
    IN  IF payload = <<>> THEN
            Result([base EXCEPT !.status = 401,
                                !.error = "Invalid or expired refresh token"], users)
        ELSE
          LET found == FindActiveById(payload[1].sub)
          IN  IF found = {} \/ ~SlotMatches(users[payload[1].sub], refreshToken) THEN
                  Result([base EXCEPT !.status = 401, !.sub = payload[1].sub,
                                      !.error = "Refresh token revoked or invalid"], users)
              ELSE
                  LET u == payload[1].sub
                      tokens == generateTokenPair(ClaimsOf(u, userRoles[u]), now)
                  IN  Result([base EXCEPT !.status = 200, !.sub = u, !.pair = <<tokens>>,
                                          !.token = refreshToken],
                             [users EXCEPT ![u] = RefreshUpdates(users[u], tokens)])

\* ------------------------------------------------------------------------
\* POST /api/auth/logout
\* ------------------------------------------------------------------------
\* update users set refresh_token = null where id = ?
ClearRefreshToken(table, id) ==
    [u \in UserIds |-> IF u = id THEN [table[u] EXCEPT !.refreshToken = NoToken] ELSE table[u]]

LogoutResult_onlyWithSlot(payload) ==
    LET base == [NoResp EXCEPT !.op = "logout"]
    IN  IF payload = <<>> \/ users[payload[1].sub].refreshToken = NoToken THEN
            Result([base EXCEPT !.status = 401, !.error = "Invalid or expired token"], users)
        ELSE
            Audited(
                Result([base EXCEPT !.status = 200, !.sub = payload[1].sub],
                       ClearRefreshToken(users, payload[1].sub)),
                writeAuditLog([operatorId |-> payload[1].sub,
                               operatorName |-> payload[1].username],
                              [action |-> "logout", resourceType |-> "auth"]))

\* payload: what verifyToken has returned for the bearer token
LogoutResult(payload) ==
    LET base == [NoResp EXCEPT !.op = "logout"]
    IN  IF payload = <<>> THEN
            Result([base EXCEPT !.status = 401, !.error = "Invalid or expired token"], users)
        ELSE
            Audited(
                Result([base EXCEPT !.status = 200, !.sub = payload[1].sub],
                       ClearRefreshToken(users, payload[1].sub)),
                writeAuditLog([operatorId |-> payload[1].sub,
                               operatorName |-> payload[1].username],
                              [action |-> "logout", resourceType |-> "auth"]))

\* ------------------------------------------------------------------------
\* POST /api/auth/password
\* ------------------------------------------------------------------------
\* What verifyPassword(currentPassword, user.passwordHash) gives for each
\* row: whether it throws and what it returns
CheckCurrent(currentPassword) ==
    [u \in UserIds |->
        [threw |-> verifyPasswordThrows(currentPassword, users[u].passwordHash),
         valid |-> verifyPassword(currentPassword, users[u].passwordHash)]]

ChangePasswordResult_keepSlot(payload, currentPassword, check, newPassword, newHash) ==
    LET base == [NoResp EXCEPT !.op = "password"]
    IN  IF payload = <<>> THEN
            Result([base EXCEPT !.status = 401, !.error = "Invalid or expired token"], users)
        ELSE IF currentPassword = "" \/ newPassword = "" THEN
            Result([base EXCEPT !.status = 400, !.sub = payload[1].sub,
                                !.error = "Current and new password required"], users)
        ELSE IF Len(newPassword) < MIN_PASSWORD_LENGTH THEN
            Result([base EXCEPT !.status = 400, !.sub = payload[1].sub,
                                !.error = "New password must be at least 8 characters"], users)
        ELSE IF payload[1].sub \notin UserIds THEN
            Result([base EXCEPT !.status = 404, !.sub = payload[1].sub,
                                !.error = "User not found"], users)
        ELSE IF check[payload[1].sub].threw THEN
            Result([base EXCEPT !.status = 500, !.sub = payload[1].sub,
                                !.error = "Internal server error"], users)
        ELSE IF ~check[payload[1].sub].valid THEN
            Result([base EXCEPT !.status = 401, !.sub = payload[1].sub,
                                !.error = "Current password is incorrect"], users)
        ELSE
            LET u == payload[1].sub
            IN  Audited(
                    Result([base EXCEPT !.status = 200, !.sub = u,
                                        !.currentPassword = currentPassword,
                                        !.newPassword = newPassword],
                           [users EXCEPT ![u].passwordHash = newHash]),
                    writeAuditLog([operatorId |-> u, operatorName |-> payload[1].username],
                                  [action |-> "password_change", resourceType |-> "auth"]))

\* payload: what verifyToken has returned for the bearer token; check: what
\* verifyPassword gives for the current password on each row; newHash: what
\* hashPassword has returned for the new password
ChangePasswordResult_revokesOnReject(payload, currentPassword, check, newPassword, newHash) ==
    LET base == [NoResp EXCEPT !.op = "password"]
    IN  IF payload = <<>> THEN
            Result([base EXCEPT !.status = 401, !.error = "Invalid or expired token"], users)
        ELSE IF currentPassword = "" \/ newPassword = "" THEN
            Result([base EXCEPT !.status = 400, !.sub = payload[1].sub,
                                !.error = "Current and new password required"], users)
        ELSE IF Len(newPassword) < MIN_PASSWORD_LENGTH THEN
            Result([base EXCEPT !.status = 400, !.sub = payload[1].sub,
                                !.error = "New password must be at least 8 characters"], users)
        ELSE IF payload[1].sub \notin UserIds THEN
            Result([base EXCEPT !.status = 404, !.sub = payload[1].sub,
                                !.error = "User not found"], users)
        ELSE IF check[payload[1].sub].threw THEN
            Result([base EXCEPT !.status = 500, !.sub = payload[1].sub,
                                !.error = "Internal server error"], users)
        ELSE IF ~check[payload[1].sub].valid THEN
            Result([base EXCEPT !.status = 401, !.sub = payload[1].sub,
                                !.error = "Current password is incorrect"],
                   ClearRefreshToken(users, payload[1].sub))
        ELSE
            LET u == payload[1].sub
            IN  Audited(
                    Result([base EXCEPT !.status = 200, !.sub = u,
                                        !.currentPassword = currentPassword,
                                        !.newPassword = newPassword],
                           [users EXCEPT ![u].passwordHash = newHash,
                                  ![u].refreshToken = NoToken]),
                    writeAuditLog([operatorId |-> u, operatorName |-> payload[1].username],
                                  [action |-> "password_change", resourceType |-> "auth"]))

ChangePasswordResult(payload, currentPassword, check, newPassword, newHash) ==
    LET base == [NoResp EXCEPT !.op = "password"]
    IN  IF payload = <<>> THEN
            Result([base EXCEPT !.status = 401, !.error = "Invalid or expired token"], users)
        ELSE IF currentPassword = "" \/ newPassword = "" THEN
            Result([base EXCEPT !.status = 400, !.sub = payload[1].sub,
                                !.error = "Current and new password required"], users)
        ELSE IF Len(newPassword) < MIN_PASSWORD_LENGTH THEN
            Result([base EXCEPT !.status = 400, !.sub = payload[1].sub,
                                !.error = "New password must be at least 8 characters"], users)
        ELSE IF payload[1].sub \notin UserIds THEN
            Result([base EXCEPT !.status = 404, !.sub = payload[1].sub,
                                !.error = "User not found"], users)
        ELSE IF check[payload[1].sub].threw THEN
            Result([base EXCEPT !.status = 500, !.sub = payload[1].sub,
                                !.error = "Internal server error"], users)
        ELSE IF ~check[payload[1].sub].valid THEN
            Result([base EXCEPT !.status = 401, !.sub = payload[1].sub,
                                !.error = "Current password is incorrect"], users)
        ELSE
            LET u == payload[1].sub
            IN  Audited(
                    Result([base EXCEPT !.status = 200, !.sub = u,
                                        !.currentPassword = currentPassword,
                                        !.newPassword = newPassword],
                           [users EXCEPT ![u].passwordHash = newHash,
                                  ![u].refreshToken = NoToken]),
                    writeAuditLog([operatorId |-> u, operatorName |-> payload[1].username],
                                  [action |-> "password_change", resourceType |-> "auth"]))

\* ------------------------------------------------------------------------
\* The handlers as steps of the service, one request at a time
\* ------------------------------------------------------------------------
\* The subject of a handed-out token
SubjectOf(tok) == JSONparse(B64Decode(Split(tok)[2]))[1].sub
IssuedRefreshTokens(u) == {i.refreshToken : i \in {j \in issued : SubjectOf(j.refreshToken) = u}}

\* A response that carries a token pair hands it out
HandOut(r) ==
    \E after \in {issued \cup {r.resp.pair[i] : i \in 1..Len(r.resp.pair)}} :
        /\ Cardinality(after) <= MaxIssued
        /\ issued' = after

\* cap bounds the failed-attempt counter in the runs explored: a login that
\* would raise it beyond cap is not explored.
Login(username, password, cap) ==
    \E r \in {LoginResult(username, password)} :
        /\ \A u \in UserIds : r.users[u].failedLoginAttempts <= cap
        /\ resp' = r.resp
        /\ users' = r.users
        /\ audit' = r.audit
        /\ HandOut(r)
        /\ loginToken' = IF r.resp.pair = <<>> THEN loginToken
                         ELSE [loginToken EXCEPT ![r.resp.sub] = r.resp.pair[1].refreshToken]
        /\ lastLock' = [u \in UserIds |->
                           IF r.users[u].lockedUntil \notin {NoTime, users[u].lockedUntil}
                           THEN r.users[u].lockedUntil ELSE lastLock[u]]
        /\ ended' = IF r.resp.pair = <<>> THEN ended ELSE [ended EXCEPT ![r.resp.sub] = FALSE]
        /\ UNCHANGED <<clock, ticks, userRoles, loggedOut, wire, verdict, reqs, env, boot, pw, db, rbac, http, logins, wrong>>

Refresh(refreshToken) ==
    \E r \in {RefreshResult(refreshToken, clock)} :
        /\ resp' = r.resp
        /\ users' = r.users
        /\ audit' = r.audit
        /\ HandOut(r)
        /\ UNCHANGED <<clock, ticks, userRoles, loginToken, loggedOut, lastLock, wire, verdict, reqs, env, boot, pw, db, rbac, http, logins, wrong, ended>>

Logout(accessToken) ==
    \E r \in {LogoutResult(verifyToken(accessToken, clock))} :
        /\ resp' = r.resp
        /\ users' = r.users
        /\ audit' = r.audit
        /\ loggedOut' = IF r.resp.status # 200 THEN loggedOut
                        ELSE [loggedOut EXCEPT ![r.resp.sub] = @ \cup IssuedRefreshTokens(r.resp.sub)]
        /\ ended' = IF r.resp.status # 200 THEN ended ELSE [ended EXCEPT ![r.resp.sub] = TRUE]
        /\ UNCHANGED <<clock, ticks, userRoles, issued, loginToken, lastLock, wire, verdict, reqs, env, boot, pw, db, rbac, http, logins, wrong>>

ChangePassword(payload, currentPassword, check, newPassword, newHash) ==
    \E r \in {ChangePasswordResult(payload, currentPassword, check, newPassword, newHash)} :
        /\ resp' = r.resp
        /\ users' = r.users
        /\ audit' = r.audit
        /\ UNCHANGED <<clock, ticks, userRoles, issued, loginToken, loggedOut, lastLock, wire, verdict, reqs, env, boot, pw, db, rbac, http, logins, wrong, ended>>

Tick(d, cap) ==
    /\ ticks < cap
    /\ ticks' = ticks + 1
    /\ clock' = clock + d
    /\ UNCHANGED <<users, userRoles, resp, issued, loginToken, loggedOut, lastLock, wire, verdict, reqs, env, boot, pw, db, rbac, http, audit, logins, wrong, ended>>

DoLogin == \E n \in Usernames, p \in Secrets : Login(n, p, MaxFailed)
DoRefresh == \E t \in Presentable : Refresh(t)
DoLogout == \E t \in HandedOut : Logout(t)
DoChangePassword ==
    \E payloads \in {[t \in HandedOut |-> verifyToken(t, clock)]} :
        \E c \in Secrets, n \in NewSecrets, s \in Salts :
            \E check \in {CheckCurrent(c)}, newHash \in {hashPassword(n, s)} :
                \E t \in HandedOut : ChangePassword(payloads[t], c, check, n, newHash)
DoTick == \E d \in TickSteps : Tick(d, MaxTicks)

Next == DoLogin \/ DoRefresh \/ DoLogout \/ DoChangePassword \/ DoTick
Spec == Init /\ [][Next]_vars

\* The process is started again, with or without the secret in its
\* environment: register() installs the routes and checks nothing.
Restart(secret) ==
    /\ env' = [env EXCEPT !.CLAWHOSPITAL_JWT_SECRET = secret]
    /\ boot' = users
    /\ resp' = NoResp
    /\ audit' = <<>>
    /\ UNCHANGED <<clock, ticks, users, userRoles, issued, loginToken, loggedOut, lastLock,
                   wire, verdict, reqs, pw, db, rbac, http, logins, wrong, ended>>

DoRestart == \E secret \in {NoSecret, <<SecretValue>>} : Restart(secret)
RestartNext == DoRestart \/ Next
RestartSpec == Init /\ [][RestartNext]_vars

\* C12: while the secret is absent no request is answered and no credential
\* record differs from what it was when the process started.
NothingServedWithoutSecret ==
    getSecretThrows => (resp = NoResp /\ users = boot)

\* The login handler and the clock alone, with as many failed attempts as the
\* lockout needs
LockLogin == \E n \in Usernames, p \in Secrets : Login(n, p, MaxLockFailed)
LockTick == \E d \in LockTickSteps : Tick(d, MaxLockTicks)
LockNext == LockLogin \/ LockTick
LockoutSpec == Init /\ [][LockNext]_vars

\* ------------------------------------------------------------------------
\* The token service alone: one token is issued, possibly changed in one
\* character on its way, and verified as an access or as a refresh token
\* ------------------------------------------------------------------------
TokenKinds == {"access", "refresh", "legacy", "garbled"}

\* A token whose body segment is no JSON text, under a matching signature
GarbledToken ==
    LET body == base64url(<<1, 2, 3>>)
    IN  JwtHeader \o <<DOT>> \o body \o <<DOT>>
            \o hmacSign(JwtHeader \o <<DOT>> \o body, getSecret)

Issue(kind, u) ==
    /\ wire.kind = "none"
    /\ \E claims \in {ClaimsOf(u, userRoles[u])} :
         \E pair \in {generateTokenPair(claims, clock)} :
           wire' = [tok |-> IF kind = "access" THEN pair.accessToken
                           ELSE IF kind = "refresh" THEN pair.refreshToken
                           ELSE IF kind = "legacy"
                           THEN generateAccessTokenLegacy(claims, clock)
                           ELSE GarbledToken,
                    kind |-> kind, iat |-> clock,
                    expiresIn |-> IF kind \in {"access", "refresh"}
                                  THEN pair.expiresIn ELSE 0,
                    edit |-> 0]
    /\ UNCHANGED <<clock, ticks, users, userRoles, resp, issued, loginToken, loggedOut,
                   lastLock, verdict, reqs, env, boot, pw, db, rbac, http, audit, logins, wrong, ended>>

\* The characters a character c of a token is replaced by: one that shares
\* its upper four bits, one that does not, and the ones outside the base64url
\* alphabet
Replacements(c) ==
    IF c < 64
    THEN {(c \div 4) * 4 + ((c + 1) % 4), (c + 4) % 64, DOT, PLUS, SLASH, WS}
    ELSE {0, WS}

Mutate(i, c) ==
    /\ wire.kind # "none"
    /\ wire.edit = 0
    /\ verdict.as = "none"
    /\ wire' = [wire EXCEPT !.tok[i] = c, !.edit = i]
    /\ UNCHANGED <<clock, ticks, users, userRoles, resp, issued, loginToken, loggedOut,
                   lastLock, verdict, reqs, env, boot, pw, db, rbac, http, audit, logins, wrong, ended>>

Verify(as) ==
    /\ wire.kind # "none"
    /\ verdict' = [as |-> as, tok |-> wire.tok, edit |-> wire.edit, at |-> clock,
                   payload |-> IF as = "access" THEN verifyToken(wire.tok, clock)
                               ELSE verifyRefreshToken(wire.tok, clock),
                   threw |-> IF as = "access" THEN verifyTokenThrows(wire.tok, clock)
                             ELSE verifyRefreshTokenThrows(wire.tok, clock)]
    /\ UNCHANGED <<clock, ticks, users, userRoles, resp, issued, loginToken, loggedOut,
                   lastLock, wire, reqs, env, boot, pw, db, rbac, http, audit, logins, wrong, ended>>

DoIssue == \E kind \in TokenKinds, u \in UserIds : Issue(kind, u)
DoMutate == \E i \in 1..Len(wire.tok) : \E c \in Replacements(wire.tok[i]) : Mutate(i, c)
DoVerify == \E as \in {"access", "refresh"} : Verify(as)
TokenTick == \E d \in TickSteps : Tick(d, MaxTokenTicks)
TokenNext == DoIssue \/ DoMutate \/ DoVerify \/ TokenTick
TokenSpec == Init /\ [][TokenNext]_vars

\* ------------------------------------------------------------------------
\* Refresh-token rotation and revocation
\* ------------------------------------------------------------------------
\* C3: when a refresh has just succeeded with the refresh token of the
\* latest login, a second refresh with that same token is answered 401
\* "Refresh token revoked or invalid", at whatever time it is made.
RotatedTokenRevoked ==
    (resp.op = "refresh" /\ resp.status = 200 /\ resp.token = loginToken[resp.sub]) =>
        LET again == RefreshResult(resp.token, clock).resp
        IN  /\ again.status = 401
            /\ again.error = "Refresh token revoked or invalid"

\* The tokens a client can present that a refresh accepts for account u
AcceptedBy(u) ==
    {t \in Presentable :
        LET r == RefreshResult(t, clock).resp IN r.status = 200 /\ r.sub = u}

\* C4: for each account at most one presentable token is accepted by a
\* refresh, and it is the value of the account's slot; after a successful
\* login or refresh the slot holds the refresh token of the pair returned.
SingleActiveRefreshToken ==
    /\ \A u \in UserIds :
          /\ Cardinality(AcceptedBy(u)) <= 1
          /\ AcceptedBy(u) \subseteq {users[u].refreshToken}
    /\ (resp.op \in {"login", "refresh"} /\ resp.status = 200) =>
          users[resp.sub].refreshToken = resp.pair[1].refreshToken

\* A refresh has replaced the slot: the token returned is the only one
\* accepted, although the token presented and the returned token with its
\* padding bits changed both still pass the signature and expiry checks
SlotReplacedByRefresh ==
    /\ resp.op = "refresh"
    /\ resp.status = 200
    /\ resp.token # resp.pair[1].refreshToken
    /\ resp.pair[1] \in issued
    /\ AcceptedBy(resp.sub) = {resp.pair[1].refreshToken}
    /\ verifyRefreshToken(resp.token, clock) # <<>>
    /\ verifyRefreshToken(Twiddle(resp.pair[1].refreshToken), clock) # <<>>

\* C5: a refresh token handed out for an account before a logout of that
\* account is never accepted by a refresh again.
LoggedOutTokensRejected ==
    \A u \in UserIds : \A t \in loggedOut[u] : RefreshResult(t, clock).resp.status # 200

\* ------------------------------------------------------------------------
\* POST /api/auth/refresh, one step per await of the handler, for several
\* requests in flight
\* ------------------------------------------------------------------------
RefreshVerify(r, refreshToken) ==
    /\ reqs[r].pc = "idle"
    /\ \E payload \in {verifyRefreshToken(refreshToken, clock)} :
         reqs' = [reqs EXCEPT ![r] =
                    IF payload = <<>>
                    THEN [@ EXCEPT !.pc = "done", !.tok = refreshToken, !.status = 401,
                                   !.error = "Invalid or expired refresh token"]
                    ELSE [@ EXCEPT !.pc = "select", !.tok = refreshToken,
                                   !.sub = payload[1].sub]]
    /\ UNCHANGED <<clock, ticks, users, userRoles, resp, issued, loginToken, loggedOut,
                   lastLock, wire, verdict, env, boot, pw, db, rbac, http, audit, logins, wrong, ended>>

RefreshSelect(r) ==
    /\ reqs[r].pc = "select"
    /\ reqs' = [reqs EXCEPT ![r] =
                   IF FindActiveById(reqs[r].sub) = {}
                      \/ ~SlotMatches(users[reqs[r].sub], reqs[r].tok)
                   THEN [@ EXCEPT !.pc = "done", !.status = 401,
                                  !.error = "Refresh token revoked or invalid"]
                   ELSE [@ EXCEPT !.pc = "roles"]]
    /\ UNCHANGED <<clock, ticks, users, userRoles, resp, issued, loginToken, loggedOut,
                   lastLock, wire, verdict, env, boot, pw, db, rbac, http, audit, logins, wrong, ended>>

RefreshRoles(r) ==
    /\ reqs[r].pc = "roles"
    /\ \E tokens \in {generateTokenPair(ClaimsOf(reqs[r].sub, userRoles[reqs[r].sub]), clock)} :
         reqs' = [reqs EXCEPT ![r].pc = "update", ![r].pair = <<tokens>>]
    /\ UNCHANGED <<clock, ticks, users, userRoles, resp, issued, loginToken, loggedOut,
                   lastLock, wire, verdict, env, boot, pw, db, rbac, http, audit, logins, wrong, ended>>

RefreshStore(r) ==
    /\ reqs[r].pc = "update"
    /\ users' = [users EXCEPT ![reqs[r].sub] = RefreshUpdates(@, reqs[r].pair[1])]
    /\ reqs' = [reqs EXCEPT ![r].pc = "done", ![r].status = 200]
    /\ UNCHANGED <<clock, ticks, userRoles, resp, issued, loginToken, loggedOut,
                   lastLock, wire, verdict, env, boot, pw, db, rbac, http, audit, logins, wrong, ended>>

LoginTokens == {loginToken[u] : u \in UserIds} \ {NoToken}

ConcVerify == \E r \in Requests, t \in LoginTokens : RefreshVerify(r, t)
ConcSelect == \E r \in Requests : RefreshSelect(r)
ConcRoles == \E r \in Requests : RefreshRoles(r)
ConcStore == \E r \in Requests : RefreshStore(r)
ConcLogin == \E n \in Usernames, p \in Secrets : Login(n, p, MaxFailed)
ConcTick == \E d \in TickSteps : Tick(d, MaxConcTicks)
ConcNext == ConcLogin \/ ConcTick \/ ConcVerify \/ ConcSelect \/ ConcRoles \/ ConcStore
ConcSpec == Init /\ [][ConcNext]_vars

\* C6: of two refresh requests that present the same refresh token, at most
\* one is answered 200 with a new token pair, a pair whose refresh token is
\* not the one presented.
RefreshTokenSingleUse ==
    \A r1, r2 \in Requests :
        (r1 # r2 /\ reqs[r1].tok = reqs[r2].tok) =>
            ~ /\ reqs[r1].status = 200
              /\ reqs[r2].status = 200
              /\ reqs[r1].pair[1].refreshToken # reqs[r1].tok
              /\ reqs[r2].pair[1].refreshToken # reqs[r2].tok

\* ------------------------------------------------------------------------
\* The password functions alone: a secret is hashed, the encoded hash is
\* possibly damaged, and a secret is verified against it
\* ------------------------------------------------------------------------
AllSecrets == Secrets \cup NewSecrets
AllSalts == Salts \cup {InitialSalt}

PwHash(password, seed) ==
    /\ pw.kind = "none"
    /\ pw' = [pw EXCEPT !.stored = hashPassword(password, seed), !.kind = "hashed",
                        !.secret = password]
    /\ UNCHANGED <<clock, ticks, users, userRoles, resp, issued, loginToken, loggedOut,
                   lastLock, wire, verdict, reqs, env, boot, db, rbac, http, audit, logins, wrong, ended>>

\* The ways an encoded hash is malformed
Damages ==
    {"tag", "fewer fields", "more fields", "N not a number", "N not a power of two",
     "r zero", "p not a number", "empty salt", "empty key", "salt not base64url",
     "key not base64url"}

Damaged(h, how) ==
    IF how = "tag" THEN [h EXCEPT ![1] = "bcrypt"]
    ELSE IF how = "fewer fields" THEN SubSeq(h, 1, 5)
    ELSE IF how = "more fields" THEN h \o <<h[6]>>
    ELSE IF how = "N not a number" THEN [h EXCEPT ![2] = <<0, 1, 2>>]
    ELSE IF how = "N not a power of two" THEN [h EXCEPT ![2] = DecimalText(SCRYPT_N - 1)]
    ELSE IF how = "r zero" THEN [h EXCEPT ![3] = DecimalText(0)]
    ELSE IF how = "p not a number" THEN [h EXCEPT ![4] = <<>>]
    ELSE IF how = "empty salt" THEN [h EXCEPT ![5] = <<>>]
    ELSE IF how = "empty key" THEN [h EXCEPT ![6] = <<>>]
    ELSE IF how = "salt not base64url" THEN [h EXCEPT ![5] = <<WS>> \o Tail(@)]
    ELSE [h EXCEPT ![6] = <<WS, WS>> \o Tail(Tail(@))]

PwDamage(how) ==
    /\ pw.kind = "hashed"
    /\ pw.tried = ""
    /\ pw' = [pw EXCEPT !.stored = Damaged(@, how), !.kind = "malformed"]
    /\ UNCHANGED <<clock, ticks, users, userRoles, resp, issued, loginToken, loggedOut,
                   lastLock, wire, verdict, reqs, env, boot, db, rbac, http, audit, logins, wrong, ended>>

PwVerify(password) ==
    /\ pw.kind # "none"
    /\ \E threw \in {verifyPasswordThrows(password, pw.stored)} :
         pw' = [pw EXCEPT !.tried = password, !.threw = threw,
                          !.result = ~threw /\ verifyPassword(password, pw.stored)]
    /\ UNCHANGED <<clock, ticks, users, userRoles, resp, issued, loginToken, loggedOut,
                   lastLock, wire, verdict, reqs, env, boot, db, rbac, http, audit, logins, wrong, ended>>

DoPwHash == \E password \in AllSecrets, seed \in AllSalts : PwHash(password, seed)
DoPwDamage == \E how \in Damages : PwDamage(how)
DoPwVerify == \E password \in AllSecrets : PwVerify(password)
PasswordNext == DoPwHash \/ DoPwDamage \/ DoPwVerify
PasswordSpec == Init /\ [][PasswordNext]_vars

\* C13: against the encoded hash that hashPassword has made of a secret,
\* with whatever salt, verifyPassword resolves to true for that secret and
\* to false for every other secret.
HashVerifyRoundTrip ==
    (pw.kind = "hashed" /\ pw.tried # "") =>
        /\ ~pw.threw
        /\ pw.result <=> (pw.tried = pw.secret)

\* The secret that was hashed has been verified against its hash, and found
\* right
OwnSecretVerified ==
    /\ pw.kind = "hashed"
    /\ pw.tried = pw.secret
    /\ pw.tried # ""
    /\ pw.result

\* C14: against a malformed encoded hash verifyPassword resolves to false,
\* and does not throw, whatever the secret.
MalformedHashIsFalse ==
    (pw.kind = "malformed" /\ pw.tried # "") => (~pw.threw /\ ~pw.result)

\* The expiry written in the token on the wire
ExpOnWire == JSONparse(B64Decode(Split(wire.tok)[2]))[1].exp

\* C7: a token issued as a refresh token is rejected when verified as an
\* access token, a token issued as an access token or in the format without
\* a type is rejected when verified as a refresh token, and a token of the
\* format without a type, unchanged and before its expiry, is accepted as an
\* access token.
KindsNeverConfused ==
    /\ (verdict.as = "access" /\ wire.kind = "refresh") => verdict.payload = <<>>
    /\ (verdict.as = "refresh" /\ wire.kind \in {"access", "legacy"}) => verdict.payload = <<>>
    /\ (verdict.as = "access" /\ wire.kind = "legacy" /\ verdict.edit = 0
           /\ verdict.at < wire.iat + 60 * 60) =>
          /\ verdict.payload # <<>>
          /\ verdict.payload[1].type = "none"

\* An unchanged, unexpired refresh token has been refused as an access token
RefreshRefusedAsAccess ==
    /\ verdict.as = "access"
    /\ wire.kind = "refresh"
    /\ verdict.edit = 0
    /\ verdict.at < wire.iat + 7 * 24 * 60 * 60
    /\ verdict.payload = <<>>

\* C8: every token a verification accepts has an expiry strictly later than
\* the time of the verification.
AcceptedOnlyBeforeExpiry ==
    verdict.payload # <<>> => verdict.payload[1].exp > verdict.at

\* C9: the access token of a pair issued at t expires at t + 1 hour, the
\* refresh token at t + 7 days, expiresIn is 3600; verified as its own kind,
\* the unchanged token is accepted at every time before its expiry and
\* rejected at every time after it.
PairLifetimes ==
    wire.kind \in {"access", "refresh"} =>
        LET ttl == IF wire.kind = "access" THEN 3600 ELSE 7 * 24 * 3600
        IN  /\ wire.expiresIn = 3600
            /\ wire.edit = 0 => ExpOnWire = wire.iat + ttl
            /\ (verdict.as = wire.kind /\ verdict.edit = 0) =>
                  /\ verdict.at < wire.iat + ttl => verdict.payload # <<>>
                  /\ verdict.at > wire.iat + ttl => verdict.payload = <<>>

\* A refresh token has been refused as a refresh token after its seven days
RefreshRefusedAfterExpiry ==
    /\ verdict.as = "refresh"
    /\ wire.kind = "refresh"
    /\ verdict.edit = 0
    /\ verdict.at > wire.iat + 7 * 24 * 3600
    /\ verdict.payload = <<>>

\* C10: a token one character of which has been changed is rejected by the
\* verification, wherever the character is.
ChangedTokenRejected ==
    (verdict.as # "none" /\ verdict.edit # 0) => verdict.payload = <<>>

\* C11: a verification never throws; it returns the parsed claims when the
\* token has three segments, a signature that decodes to the expected bytes,
\* a body that parses, an expiry not before the current second and the kind
\* asked for, and the one invalid result (null) in every other case.
VerificationFailsUniformly ==
    verdict.as # "none" =>
        LET parts == Split(verdict.tok)
            signed == Len(parts) = 3 /\ SignatureMatches(parts)
            parsed == IF signed THEN JSONparse(B64Decode(parts[2])) ELSE <<>>
            live == parsed # <<>> /\ parsed[1].exp >= verdict.at
            kindOk == /\ parsed # <<>>
                      /\ IF verdict.as = "access"
                         THEN parsed[1].type \in {"access", "none"}
                         ELSE parsed[1].type = "refresh"
        IN  /\ ~verdict.threw
            /\ IF signed /\ live /\ kindOk
               THEN verdict.payload = parsed
               ELSE verdict.payload = <<>>

\* A token with a matching signature over a body that does not parse has
\* been verified, and the answer is the invalid result
GarbledTokenRefused ==
    /\ verdict.as # "none"
    /\ wire.kind = "garbled"
    /\ verdict.edit = 0
    /\ tryThrows(verdict.tok, verdict.at)
    /\ ~verdict.threw
    /\ verdict.payload = <<>>

UnlockedAfterExpiry ==
    \A u \in UserIds :
        (users[u].isActive /\ users[u].lockedUntil # NoTime /\ clock > users[u].lockedUntil) =>
            \A p \in Secrets :
                verifyPassword(p, users[u].passwordHash) =>
                    LET r == LoginResult(UsernameOf(u), p)
                    IN  /\ r.resp.status = 200
                        /\ Len(r.resp.pair) = 1
                        /\ r.resp.pair[1] \notin issued
                        /\ {r.resp.pair[1].accessToken, r.resp.pair[1].refreshToken}
                               \cap HandedOut = {}
                        /\ verifyToken(r.resp.pair[1].accessToken, clock) # <<>>
                        /\ verifyRefreshToken(r.resp.pair[1].refreshToken, clock) # <<>>
                        /\ r.users[u].failedLoginAttempts = 0
                        /\ r.users[u].lockedUntil = NoTime
                        /\ r.users[u].refreshToken = r.resp.pair[1].refreshToken

\* A login has just succeeded after the latest lockout of the account expired
LoginAfterLockout ==
    /\ resp.op = "login"
    /\ resp.status = 200
    /\ lastLock[resp.sub] # NoTime
    /\ clock > lastLock[resp.sub]
    /\ users[resp.sub].lastLoginAt = clock
    /\ users[resp.sub].failedLoginAttempts = 0
    /\ users[resp.sub].lockedUntil = NoTime

\* ------------------------------------------------------------------------
\* The rbac tables change, and routes query them
\* ------------------------------------------------------------------------

\* INSERT INTO roles: id is the primary key, code is unique.
CreateRole(id, code) ==
    /\ \A r \in db.roles : r.id # id /\ r.code # code
    /\ db' = [db EXCEPT !.roles = @ \cup {[id |-> id, code |-> code]}]
    /\ rbac' = NoQuery
    /\ UNCHANGED <<clock, ticks, users, userRoles, resp, issued, loginToken, loggedOut, lastLock,
                 wire, verdict, reqs, env, boot, pw, http, audit, logins, wrong, ended>>

\* DELETE FROM roles: role_permissions, user_roles and data_access_policies
\* reference the role with ON DELETE CASCADE.
DeleteRole(role) ==
    /\ role \in db.roles
    /\ db' = [db EXCEPT !.roles = @ \ {role},
                        !.rolePermissions = {rp \in @ : rp.roleId # role.id},
                        !.dataAccessPolicies = {p \in @ : p.roleId # role.id}]
    /\ userRoles' = [u \in UserIds |-> userRoles[u] \ {role.code}]
    /\ rbac' = NoQuery
    /\ UNCHANGED <<clock, ticks, users, resp, issued, loginToken, loggedOut, lastLock, wire,
                 verdict, reqs, env, boot, pw, http, audit, logins, wrong, ended>>

\* INSERT INTO role_permissions: both references exist, the pair is unique.
Grant(roleId, permissionId) ==
    /\ \E r \in db.roles : r.id = roleId
    /\ \E p \in db.permissions : p.id = permissionId
    /\ [roleId |-> roleId, permissionId |-> permissionId] \notin db.rolePermissions
    /\ db' = [db EXCEPT !.rolePermissions =
                  @ \cup {[roleId |-> roleId, permissionId |-> permissionId]}]
    /\ rbac' = NoQuery
    /\ UNCHANGED <<clock, ticks, users, userRoles, resp, issued, loginToken, loggedOut, lastLock,
                 wire, verdict, reqs, env, boot, pw, http, audit, logins, wrong, ended>>

\* INSERT INTO data_access_policies: id is the primary key, the role exists.
AddPolicy(id, roleId, resource, scopeType, scopeValue) ==
    /\ \A p \in db.dataAccessPolicies : p.id # id
    /\ \E r \in db.roles : r.id = roleId
    /\ db' = [db EXCEPT !.dataAccessPolicies =
                  @ \cup {[id |-> id, roleId |-> roleId, resource |-> resource,
                           scopeType |-> scopeType, scopeValue |-> scopeValue]}]
    /\ rbac' = NoQuery
    /\ UNCHANGED <<clock, ticks, users, userRoles, resp, issued, loginToken, loggedOut, lastLock,
                 wire, verdict, reqs, env, boot, pw, http, audit, logins, wrong, ended>>

CheckPermission(ctx, check) ==
    /\ rbac' = [fn |-> "hasPermission", ctx |-> ctx, check |-> check,
                result |-> <<hasPermission(ctx, check)>>]
    /\ UNCHANGED <<clock, ticks, users, userRoles, resp, issued, loginToken, loggedOut, lastLock,
                 wire, verdict, reqs, env, boot, pw, db, http, audit, logins, wrong, ended>>

ResolveScope(ctx, resource, policies) ==
    /\ rbac' = [fn |-> "getDataScope", ctx |-> ctx,
                check |-> [resource |-> resource, action |-> ""],
                result |-> getDataScope(ctx, resource, policies)]
    /\ UNCHANGED <<clock, ticks, users, userRoles, resp, issued, loginToken, loggedOut, lastLock,
                 wire, verdict, reqs, env, boot, pw, db, http, audit, logins, wrong, ended>>

DoCreateRole == \E id \in RoleIds, code \in RoleCodes : CreateRole(id, code)

DoDeleteRole == \E role \in db.roles : DeleteRole(role)

DoGrant == \E roleId \in RoleIds, permissionId \in PermissionIds : Grant(roleId, permissionId)

DoAddPolicy ==
    \E id \in PolicyIds, roleId \in RoleIds, resource \in Resources,
       scopeType \in ScopeTypes, scopeValue \in ScopeValues :
        AddPolicy(id, roleId, resource, scopeType, scopeValue)

DoCheckPermission == \E ctx \in Contexts, check \in PermissionChecks : CheckPermission(ctx, check)

DoResolveScope ==
    \E ctx \in Contexts, resource \in Resources :
        \E policies \in RowOrders(ApplicablePolicies(ctx, resource)) :
            ResolveScope(ctx, resource, policies)

PermissionNext == DoCreateRole \/ DoDeleteRole \/ DoGrant \/ DoCheckPermission

PermissionSpec == Init /\ [][PermissionNext]_vars

ScopeNext == DoCreateRole \/ DoDeleteRole \/ DoAddPolicy \/ DoResolveScope

ScopeSpec == Init /\ [][ScopeNext]_vars

\* C15: the answer of hasPermission is true exactly when some role code of the
\* context names a role holding a grant for the very (resource, action) pair
\* asked for; so it is false for an empty role set, for codes that name no
\* role, and for roles that exist without a matching grant.
PermissionIffGranted ==
    LET GrantingCodes ==
            {code \in rbac.ctx.roleCodes :
                \E r \in db.roles, rp \in db.rolePermissions, p \in db.permissions :
                    /\ r.code = code /\ rp.roleId = r.id /\ rp.permissionId = p.id
                    /\ p.resource = rbac.check.resource /\ p.action = rbac.check.action}
    IN
    rbac.fn = "hasPermission" =>
        /\ rbac.result[1] <=> GrantingCodes # {}
        /\ rbac.ctx.roleCodes = {} => ~rbac.result[1]
        /\ (\A r \in db.roles : r.code \notin rbac.ctx.roleCodes) => ~rbac.result[1]

\* A role of the context exists and holds a grant on the same resource for
\* another action, and the answer is no.
OtherActionRefused ==
    /\ rbac.fn = "hasPermission"
    /\ ~rbac.result[1]
    /\ \E r \in db.roles, rp \in db.rolePermissions, p \in db.permissions :
           /\ r.code \in rbac.ctx.roleCodes /\ rp.roleId = r.id /\ rp.permissionId = p.id
           /\ p.resource = rbac.check.resource /\ p.action # rbac.check.action

\* C16: when policy rows apply to the context's roles on the resource, the
\* scope returned is that of one applicable row, and no applicable row has a
\* kind earlier in the order all > own_department > own_patients >
\* specific_departments; with an all row among them the answer is all.
LeastRestrictiveScope ==
    LET Restrictiveness(scopeType) ==
            CASE scopeType = "all" -> 1
              [] scopeType = "own_department" -> 2
              [] scopeType = "own_patients" -> 3
              [] scopeType = "specific_departments" -> 4
    IN
    (rbac.fn = "getDataScope"
        /\ ApplicablePolicies(rbac.ctx, rbac.check.resource) # {}) =>
        /\ rbac.result # NoScope
        /\ \E p \in ApplicablePolicies(rbac.ctx, rbac.check.resource) :
               /\ rbac.result[1] = [scopeType |-> p.scopeType, scopeValue |-> p.scopeValue]
               /\ \A q \in ApplicablePolicies(rbac.ctx, rbac.check.resource) :
                      Restrictiveness(q.scopeType) >= Restrictiveness(p.scopeType)
        /\ (\E q \in ApplicablePolicies(rbac.ctx, rbac.check.resource) : q.scopeType = "all")
               => rbac.result[1].scopeType = "all"

\* An own_department row and an all row both apply, held through different
\* roles, and the all row is the one returned.
AllBeatsOwnDepartment ==
    /\ rbac.fn = "getDataScope"
    /\ rbac.result # NoScope
    /\ rbac.result[1].scopeType = "all"
    /\ \E p, q \in ApplicablePolicies(rbac.ctx, rbac.check.resource) :
           /\ p.scopeType = "all" /\ q.scopeType = "own_department"
           /\ p.roleId # q.roleId /\ p.id > q.id

\* ------------------------------------------------------------------------
\* A request passes through the middleware of its route, one at a time
\* ------------------------------------------------------------------------
InFlight == http.at >= 1 /\ http.at <= Len(http.chain) /\ http.status = 0

Arrive(chain, check, authorization) ==
    /\ ~InFlight
    /\ http' = [NoHttp EXCEPT !.chain = chain, !.check = check, !.at = 1,
                              !.authorization = authorization]
    /\ UNCHANGED <<clock, ticks, users, userRoles, resp, issued, loginToken, loggedOut, lastLock,
                   wire, verdict, reqs, env, boot, pw, db, rbac, audit, logins, wrong, ended>>

Authenticate ==
    /\ InFlight
    /\ http.chain[http.at] = "authenticate"
    /\ http' = authenticate(http, clock)
    /\ UNCHANGED <<clock, ticks, users, userRoles, resp, issued, loginToken, loggedOut, lastLock,
                   wire, verdict, reqs, env, boot, pw, db, rbac, audit, logins, wrong, ended>>

Authorize ==
    /\ InFlight
    /\ http.chain[http.at] = "authorize"
    /\ http' = authorize(http.check, http)
    /\ UNCHANGED <<clock, ticks, users, userRoles, resp, issued, loginToken, loggedOut, lastLock,
                   wire, verdict, reqs, env, boot, pw, db, rbac, audit, logins, wrong, ended>>

Handle ==
    /\ InFlight
    /\ http.chain[http.at] = "handler"
    /\ http' = handler(http)
    /\ UNCHANGED <<clock, ticks, users, userRoles, resp, issued, loginToken, loggedOut, lastLock,
                   wire, verdict, reqs, env, boot, pw, db, rbac, audit, logins, wrong, ended>>

RouteChecks == {[resource |-> "orders", action |-> a] : a \in Actions}
Authorizations == {<<>>} \cup {<<s, t>> : s \in Schemes, t \in HandedOut}

DoArrive ==
    \E chain \in Chains, check \in RouteChecks, authorization \in Authorizations :
        Arrive(chain, check, authorization)

RouteGrant == \E roleId \in RoleIds : Grant(roleId, 1)

MiddlewareNext ==
    DoLogin \/ RouteGrant \/ DoArrive \/ Authenticate \/ Authorize \/ Handle

MiddlewareSpec == Init /\ [][MiddlewareNext]_vars

\* C17: hasPermission is consulted, and the business handler reached, only on a
\* request that authenticate has passed on; a request that comes to authorize
\* without that is answered 401 with neither.
AuthorizeOnlyAfterAuthenticate ==
    /\ http.consulted => http.authenticated
    /\ http.handled => http.authenticated /\ http.consulted
    /\ http.authenticated =>
           \E i \in 1..Len(http.chain) : http.chain[i] = "authenticate" /\ i < http.at
    /\ (~http.authenticated /\ http.status # 0) =>
           http.status = 401 /\ ~http.consulted /\ ~http.handled

\* A request carrying a good access token on the route without authenticate
\* has been turned away by authorize.
UnauthenticatedRouteRejected ==
    /\ http.chain = <<"authorize", "handler">>
    /\ http.status = 401
    /\ http.error = "Not authenticated"
    /\ http.authorization # <<>>
    /\ http.authorization[1] = "Bearer "
    /\ verifyToken(http.authorization[2], clock) # <<>>
    /\ hasPermission([userId |-> 1, roleCodes |-> verifyToken(http.authorization[2], clock)[1].roles],
                     http.check)

\* ------------------------------------------------------------------------
\* Role assignments change between a login and the rotations that follow it
\* ------------------------------------------------------------------------
\* INSERT INTO user_roles: the role exists, the user does not hold it yet.
AssignRole(u, code) ==
    /\ \E r \in db.roles : r.code = code
    /\ code \notin userRoles[u]
    /\ userRoles' = [userRoles EXCEPT ![u] = @ \cup {code}]
    /\ UNCHANGED <<clock, ticks, users, resp, issued, loginToken, loggedOut, lastLock, wire,
                   verdict, reqs, env, boot, pw, db, rbac, http, audit, logins, wrong, ended>>

\* DELETE FROM user_roles
UnassignRole(u, code) ==
    /\ code \in userRoles[u]
    /\ userRoles' = [userRoles EXCEPT ![u] = @ \ {code}]
    /\ UNCHANGED <<clock, ticks, users, resp, issued, loginToken, loggedOut, lastLock, wire,
                   verdict, reqs, env, boot, pw, db, rbac, http, audit, logins, wrong, ended>>

DoAssignRole == \E u \in UserIds, code \in RoleCodes : AssignRole(u, code)
DoUnassignRole == \E u \in UserIds, code \in RoleCodes : UnassignRole(u, code)

RotateNext == DoLogin \/ DoRefresh \/ DoAssignRole \/ DoUnassignRole

RotateSpec == Init /\ [][RotateNext]_vars

\* C18: the access token a successful rotation returns carries exactly the
\* role codes the user holds in the store when the rotation is handled,
\* whatever role codes the refresh token presented carries.
RotateEmbedsCurrentRoles ==
    [][(DoRefresh /\ resp'.status = 200) =>
           LET embedded == verifyToken(resp'.pair[1].accessToken, clock')
           IN  embedded # <<>> /\ embedded[1].roles = userRoles[resp'.sub]]_vars

\* A rotation has answered with an access token whose role codes are those of
\* the store and differ from the ones in the refresh token it was given.
RotatedWithChangedRoles ==
    /\ resp.op = "refresh"
    /\ resp.status = 200
    /\ verifyRefreshToken(resp.token, clock) # <<>>
    /\ verifyToken(resp.pair[1].accessToken, clock) # <<>>
    /\ verifyToken(resp.pair[1].accessToken, clock)[1].roles = userRoles[resp.sub]
    /\ verifyToken(resp.pair[1].accessToken, clock)[1].roles
           # verifyRefreshToken(resp.token, clock)[1].roles

\* C19: after a password change that went through with a new secret other than
\* the current one, the stored hash verifies the new secret and not the old
\* one and the refresh-token slot is empty; and whenever the slot is empty,
\* as it stays until a login fills it, rotate refuses every refresh token
\* handed out so far.
PasswordChangeTakesEffect ==
    /\ (resp.op = "password" /\ resp.status = 200
            /\ resp.newPassword # resp.currentPassword) =>
           /\ verifyPassword(resp.newPassword, users[resp.sub].passwordHash)
           /\ ~verifyPassword(resp.currentPassword, users[resp.sub].passwordHash)
           /\ users[resp.sub].refreshToken = NoToken
    /\ (resp.op = "password" /\ resp.status = 200) =>
           users[resp.sub].refreshToken = NoToken
    /\ \A u \in UserIds :
           users[u].refreshToken = NoToken =>
               \A t \in IssuedRefreshTokens(u) : RefreshResult(t, clock).resp.status = 401

\* C19 as stated: after any password change that went through, the stored
\* hash verifies the new secret and no longer the old one, and the slot is
\* empty.
PasswordChangeDropsOldSecret ==
    (resp.op = "password" /\ resp.status = 200) =>
        /\ verifyPassword(resp.newPassword, users[resp.sub].passwordHash)
        /\ ~verifyPassword(resp.currentPassword, users[resp.sub].passwordHash)
        /\ users[resp.sub].refreshToken = NoToken

\* A password change to another secret went through for a user who holds a
\* refresh token that still verifies.
PasswordChangedWithTokenOut ==
    /\ resp.op = "password"
    /\ resp.status = 200
    /\ resp.newPassword # resp.currentPassword
    /\ \E t \in IssuedRefreshTokens(resp.sub) : verifyRefreshToken(t, clock) # <<>>

\* C20: a logout that succeeds leaves the row as it was but for an empty
\* slot, and a logout repeated right after it, with any access token of the
\* user that is still valid, succeeds as well and leaves the table as the
\* first one left it.
LogoutIdempotent ==
    [][(resp'.op = "logout" /\ resp'.status = 200 /\ <<resp, users>>' # <<resp, users>>) =>
           /\ users' = [users EXCEPT ![resp'.sub].refreshToken = NoToken]
           /\ \A t \in HandedOut :
                  \A payload \in {verifyToken(t, clock)} :
                      (payload # <<>> /\ payload[1].sub = resp'.sub) =>
                          /\ LogoutResult(payload)'.resp.status = 200
                          /\ LogoutResult(payload)'.users = users']_vars

\* A logout has succeeded and emptied a slot that held a token, and the user
\* still holds a valid access token to log out with again.
LoggedOutWithAccessToken ==
    /\ resp.op = "logout"
    /\ resp.status = 200
    /\ users[resp.sub].refreshToken = NoToken
    /\ loggedOut[resp.sub] # {}
    /\ \E t \in HandedOut :
           /\ verifyToken(t, clock) # <<>>
           /\ verifyToken(t, clock)[1].sub = resp.sub
           /\ LogoutResult(verifyToken(t, clock)).users = users

\* C21 as stated: a login with an unknown login name and a login with an
\* existing login name and a wrong secret are answered alike.
FailedLoginsAnsweredAlike ==
    \A u \in UserIds, p \in Secrets :
        (users[u].isActive /\ ~verifyPassword(p, users[u].passwordHash)) =>
            Sent(LoginResult(UsernameOf(u), p).resp) = Sent(LoginResult(UnknownUsername, p).resp)

\* C21: while the account is not locked, a login with an unknown login name
\* and a login with an existing login name and a wrong secret are answered
\* alike, with 401 Invalid credentials; on a locked account the wrong secret
\* is answered 423 with the lockout expiry.
UnlockedFailedLoginsAnsweredAlike ==
    \A u \in UserIds, p \in Secrets :
        (users[u].isActive /\ ~verifyPassword(p, users[u].passwordHash)) =>
            /\ Sent(LoginResult(UnknownUsername, p).resp)
                   = [Sent(NoResp) EXCEPT !.status = 401, !.error = "Invalid credentials"]
            /\ ~LockedOut(users[u], clock) =>
                   Sent(LoginResult(UsernameOf(u), p).resp)
                       = Sent(LoginResult(UnknownUsername, p).resp)
            /\ LockedOut(users[u], clock) =>
                   Sent(LoginResult(UsernameOf(u), p).resp)
                       = [Sent(NoResp) EXCEPT !.status = 423,
                                              !.error = "Account temporarily locked",
                                              !.lockedUntil = users[u].lockedUntil]

\* A wrong secret for an existing login name has just been answered 401, and
\* the unknown login name would be answered the same.
WrongSecretAnswered ==
    /\ resp.op = "login"
    /\ resp.status = 401
    /\ resp.sub \in UserIds
    /\ users[resp.sub].failedLoginAttempts > 0
    /\ ~LockedOut(users[resp.sub], clock)
    /\ \E p \in Secrets : Sent(LoginResult(UnknownUsername, p).resp) = Sent(resp)

\* C23: while the lockout expiry of an account is in the future, a login is
\* answered 423 whatever the secret, before the secret is verified, and the
\* users table is left as it was: counter, lockout expiry and slot included.
LockedLoginChangesNothing ==
    \A u \in UserIds :
        (users[u].isActive /\ LockedOut(users[u], clock)) =>
            \A p \in Secrets :
                /\ LoginResult(UsernameOf(u), p).resp.status = 423
                /\ LoginResult(UsernameOf(u), p).users = users
                /\ \A q \in Secrets :
                       LoginResult(UsernameOf(u), p) = LoginResult(UsernameOf(u), q)

\* A login with the right secret has been answered 423 on a locked account
\* whose counter stands at the threshold.
RightSecretRejectedWhileLocked ==
    /\ resp.op = "login"
    /\ resp.status = 423
    /\ LockedOut(users[resp.sub], clock)
    /\ users[resp.sub].failedLoginAttempts = MAX_ATTEMPTS
    /\ \E p \in Secrets :
           /\ verifyPassword(p, users[resp.sub].passwordHash)
           /\ LoginResult(UsernameOf(resp.sub), p).resp = resp

\* C24: the failed-attempt counter of every row lies between 0 and the
\* threshold 5.
CounterWithinThreshold ==
    \A u \in UserIds :
        users[u].failedLoginAttempts >= 0 /\ users[u].failedLoginAttempts <= MAX_ATTEMPTS

\* C25: a login that succeeds leaves the counter of the account at 0 and its
\* lockout expiry null, whatever they were.
SuccessfulLoginResets ==
    [][(resp'.op = "login" /\ resp'.status = 200 /\ <<resp, users>>' # <<resp, users>>) =>
           /\ users'[resp'.sub].failedLoginAttempts = 0
           /\ users'[resp'.sub].lockedUntil = NoTime]_vars

\* A login has succeeded on an account that had been locked, its lockout
\* expired, and counter and lockout expiry are cleared.
ResetAfterExpiredLockout ==
    /\ resp.op = "login"
    /\ resp.status = 200
    /\ lastLock[resp.sub] # NoTime
    /\ lastLock[resp.sub] <= clock
    /\ users[resp.sub].failedLoginAttempts = 0
    /\ users[resp.sub].lockedUntil = NoTime
    /\ users[resp.sub].refreshToken = resp.pair[1].refreshToken

\* ------------------------------------------------------------------------
\* An account is deactivated while its tokens are out
\* ------------------------------------------------------------------------
\* update users set is_active = false where id = ?
Deactivate(u) ==
    /\ users[u].isActive
    /\ users' = [users EXCEPT ![u].isActive = FALSE]
    /\ UNCHANGED <<clock, ticks, userRoles, resp, issued, loginToken, loggedOut,
                   lastLock, wire, verdict, reqs, env, boot, pw, db, rbac, http, audit, logins, wrong, ended>>

DoDeactivate == \E u \in UserIds : Deactivate(u)

DeactivateNext == DoLogin \/ DoRefresh \/ DoDeactivate \/ DoTick

DeactivateSpec == Init /\ [][DeactivateNext]_vars

\* C26: for a deactivated row, a login with any secret, the right one
\* included, is answered 401 Invalid credentials, a rotate with any refresh
\* token of the account that verifies, the stored one included, is answered
\* 401, and both leave the users table as it was.
DeactivatedGetsNoTokens ==
    \A u \in UserIds :
        ~users[u].isActive =>
            /\ \A p \in Secrets :
                   /\ Sent(LoginResult(UsernameOf(u), p).resp)
                          = [Sent(NoResp) EXCEPT !.status = 401,
                                                 !.error = "Invalid credentials"]
                   /\ LoginResult(UsernameOf(u), p).users = users
            /\ \A t \in Presentable :
                   (verifyRefreshToken(t, clock) # <<>>
                        /\ verifyRefreshToken(t, clock)[1].sub = u) =>
                       /\ RefreshResult(t, clock).resp.status = 401
                       /\ RefreshResult(t, clock).resp.pair = <<>>
                       /\ RefreshResult(t, clock).users = users

\* A rotate has been refused on a deactivated account whose slot holds a
\* refresh token that still verifies, and the right secret is known.
DeactivatedRotateRefused ==
    /\ resp.op = "refresh"
    /\ resp.status = 401
    /\ resp.sub \in UserIds
    /\ ~users[resp.sub].isActive
    /\ users[resp.sub].refreshToken # NoToken
    /\ verifyRefreshToken(users[resp.sub].refreshToken, clock) # <<>>
    /\ \E p \in Secrets : verifyPassword(p, users[resp.sub].passwordHash)

\* C27: the answer of getDataScope is none exactly when no policy row on the
\* resource belongs to a role that a role code of the context names, as with
\* an empty role set or codes that name no role; otherwise it is the scope
\* of one of those rows.
NoneIffNoPolicy ==
    LET rows == {p \in db.dataAccessPolicies :
                    /\ p.resource = rbac.check.resource
                    /\ \E r \in db.roles : r.id = p.roleId /\ r.code \in rbac.ctx.roleCodes}
    IN  rbac.fn = "getDataScope" =>
            /\ rbac.result = NoScope <=> rows = {}
            /\ rbac.ctx.roleCodes = {} => rbac.result = NoScope
            /\ (\A r \in db.roles : r.code \notin rbac.ctx.roleCodes) => rbac.result = NoScope
            /\ rbac.result # NoScope =>
                   \E p \in rows :
                       rbac.result[1] = [scopeType |-> p.scopeType, scopeValue |-> p.scopeValue]

\* The answer is none for a context whose role exists, while another role
\* holds a policy on the very resource.
NoneBesideAnotherRolesPolicy ==
    /\ rbac.fn = "getDataScope"
    /\ rbac.result = NoScope
    /\ \E r \in db.roles : r.code \in rbac.ctx.roleCodes
    /\ \E p \in db.dataAccessPolicies : p.resource = rbac.check.resource

\* C28: a login, a logout or a password change that is answered 200 has
\* inserted one row into audit_logs, naming the operator and the action
\* login, logout or password_change; a request answered otherwise, and every
\* refresh request, has inserted none.
AuditOnSuccessOnly ==
    LET audited == resp.op \in {"login", "logout", "password"} /\ resp.status = 200
        action == IF resp.op = "password" THEN "password_change" ELSE resp.op
    IN  /\ audited =>
               audit = <<[operatorId |-> resp.sub, operatorName |-> UsernameOf(resp.sub),
                          action |-> action, resourceType |-> "auth"]>>
        /\ ~audited => audit = <<>>

\* A password change has been answered 200 and its row is in audit_logs.
PasswordChangeAudited ==
    /\ resp.op = "password"
    /\ resp.status = 200
    /\ Len(audit) = 1
    /\ audit[1].action = "password_change"
    /\ audit[1].operatorId = resp.sub

\* ------------------------------------------------------------------------
\* Rotations on an account that failed logins have locked
\* ------------------------------------------------------------------------
LockedRotateNext == LockLogin \/ DoRefresh \/ LockTick

LockedRotateSpec == Init /\ [][LockedRotateNext]_vars

\* C29: a rotate leaves the failed-attempt counter and the lockout expiry of
\* every row as they were, and a rotate presenting the stored refresh token
\* of an active account is answered 200 whether the account is locked or not.
RotateIgnoresLockout ==
    \A t \in Presentable :
        \A r \in {RefreshResult(t, clock)} :
            \A u \in UserIds :
                /\ r.users[u].failedLoginAttempts = users[u].failedLoginAttempts
                /\ r.users[u].lockedUntil = users[u].lockedUntil
                /\ (users[u].isActive /\ t = users[u].refreshToken
                        /\ verifyRefreshToken(t, clock) # <<>>
                        /\ verifyRefreshToken(t, clock)[1].sub = u) =>
                       r.resp.status = 200

\* A rotate has been answered 200 on an account that five failed logins had
\* locked, and the lockout is still in force with the counter at 5.
RotatedWhileLocked ==
    /\ resp.op = "refresh"
    /\ resp.status = 200
    /\ LockedOut(users[resp.sub], clock)
    /\ users[resp.sub].failedLoginAttempts = MAX_ATTEMPTS
    /\ users[resp.sub].refreshToken = resp.pair[1].refreshToken

\* ------------------------------------------------------------------------
\* Login requests in flight together: each reads the row, verifies the
\* secret and writes the row in separate awaited statements
\* ------------------------------------------------------------------------
\* const [user] = await db.select()...; then the lockout check on that row
LoginSelect(r, username, password) ==
    /\ logins[r].pc \in {"idle", "done"}
    /\ \E found \in {FindActiveByUsername(username)} :
         logins' = [logins EXCEPT ![r] =
            IF found = {}
            THEN [NoLogin EXCEPT !.pc = "done", !.username = username,
                                 !.password = password, !.status = 401,
                                 !.error = "Invalid credentials"]
            ELSE LET u == CHOOSE x \in found : TRUE
                 IN  IF LockedOut(users[u], clock)
                     THEN [NoLogin EXCEPT !.pc = "done", !.username = username,
                                          !.password = password, !.sub = u,
                                          !.status = 423,
                                          !.error = "Account temporarily locked"]
                     ELSE [NoLogin EXCEPT !.pc = "verify", !.username = username,
                                          !.password = password, !.sub = u,
                                          !.user = <<users[u]>>]]
    /\ UNCHANGED <<clock, ticks, users, userRoles, resp, issued, loginToken, loggedOut,
                   lastLock, wire, verdict, reqs, env, boot, pw, db, rbac, http, audit,
                   wrong, ended>>

\* const valid = await verifyPassword(password, user.passwordHash)
LoginVerify(r) ==
    /\ logins[r].pc = "verify"
    /\ \E valid \in {verifyPassword(logins[r].password, logins[r].user[1].passwordHash)} :
         /\ valid \/ users[logins[r].sub].lockedUntil # NoTime
                  \/ wrong[logins[r].sub] <= MAX_ATTEMPTS
         /\ logins' = [logins EXCEPT ![r].pc = "store", ![r].valid = valid]
         /\ wrong' = IF valid \/ users[logins[r].sub].lockedUntil # NoTime THEN wrong
                     ELSE [wrong EXCEPT ![logins[r].sub] = @ + 1]
    /\ UNCHANGED <<clock, ticks, users, userRoles, resp, issued, loginToken, loggedOut,
                   lastLock, wire, verdict, reqs, env, boot, pw, db, rbac, http, audit, ended>>

\* await db.update(users).set(...).where(eq(users.id, user.id)): the columns
\* set are computed from the row as it was read
LoginStore(r) ==
    /\ logins[r].pc = "store"
    /\ \E u \in {logins[r].sub}, user \in {logins[r].user[1]} :
         IF ~logins[r].valid
         THEN \E updates \in {FailedUpdates(user, clock)} :
                /\ users' = [users EXCEPT
                       ![u].failedLoginAttempts = updates.failedLoginAttempts,
                       ![u].lockedUntil = IF updates.failedLoginAttempts >= MAX_ATTEMPTS
                                          THEN updates.lockedUntil ELSE @]
                /\ logins' = [logins EXCEPT ![r].pc = "done", ![r].status = 401,
                                            ![r].error = "Invalid credentials"]
                /\ wrong' = wrong
                /\ audit' = <<>>
         ELSE \E tokens \in {generateTokenPair(ClaimsOf(u, userRoles[u]), clock)} :
                \E updates \in {LoginUpdates(user, tokens, clock)} :
                  /\ users' = [users EXCEPT
                         ![u].refreshToken = updates.refreshToken,
                         ![u].lastLoginAt = updates.lastLoginAt,
                         ![u].failedLoginAttempts = updates.failedLoginAttempts,
                         ![u].lockedUntil = updates.lockedUntil]
                  /\ logins' = [logins EXCEPT ![r].pc = "done", ![r].status = 200,
                                              ![r].pair = <<tokens>>]
                  /\ wrong' = [wrong EXCEPT ![u] = 0]
                  /\ audit' = <<writeAuditLog([operatorId |-> u, operatorName |-> UsernameOf(u)],
                                              [action |-> "login", resourceType |-> "auth"])>>
    /\ ended' = IF logins[r].valid THEN [ended EXCEPT ![logins[r].sub] = FALSE] ELSE ended
    /\ UNCHANGED <<clock, ticks, userRoles, resp, issued, loginToken, loggedOut,
                   lastLock, wire, verdict, reqs, env, boot, pw, db, rbac, http>>

ConcLoginSelect == \E r \in Requests, n \in Usernames, p \in Secrets : LoginSelect(r, n, p)
ConcLoginVerify == \E r \in Requests : LoginVerify(r)
ConcLoginStore == \E r \in Requests : LoginStore(r)

ConcLoginNext == ConcLoginSelect \/ ConcLoginVerify \/ ConcLoginStore

ConcLoginSpec == Init /\ [][ConcLoginNext]_vars

\* C30: however the login requests interleave, no failed attempt is lost from
\* the counter: on an account not locked since its last successful login at
\* most 5 wrong secrets have been verified, and once every verified secret
\* has been written back the counter is no less than their number.
NoFailedAttemptLost ==
    \A u \in UserIds :
        /\ wrong[u] <= MAX_ATTEMPTS
        /\ (users[u].lockedUntil = NoTime
                /\ \A r \in Requests : logins[r].pc # "store") =>
               users[u].failedLoginAttempts >= wrong[u]

\* ------------------------------------------------------------------------
\* Logout while refresh requests are in flight
\* ------------------------------------------------------------------------
RaceLogout == \E i \in issued : Logout(i.accessToken)

LogoutRaceNext ==
    ConcLogin \/ RaceLogout \/ ConcVerify \/ ConcSelect \/ ConcRoles \/ ConcStore

LogoutRaceSpec == Init /\ [][LogoutRaceNext]_vars

\* C31: once a logout of an account has completed and until its next
\* successful login, the account's refresh-token slot is empty and no refresh
\* request for the account is answered 200 with a stored token, even when a
\* refresh had read the slot before the logout ran.
SlotStaysEmptyAfterLogout ==
    \A u \in UserIds :
        ended[u] =>
            /\ users[u].refreshToken = <<>>
            /\ \A t \in Presentable : RefreshResult(t, clock).resp.status # 200

\* ------------------------------------------------------------------------
\* authenticate against accounts that are logged out, locked, deactivated or
\* given a new secret after their access token was issued
\* ------------------------------------------------------------------------
\* A request with an Authorization header as it comes to authenticate
Arrived(authorization) ==
    [NoHttp EXCEPT !.chain = <<"authenticate", "handler">>, !.at = 1,
                   !.authorization = authorization]

AuthenticateRequest(authorization) ==
    /\ http' = authenticate(Arrived(authorization), clock)
    /\ UNCHANGED <<clock, ticks, users, userRoles, resp, issued, loginToken, loggedOut,
                   lastLock, wire, verdict, reqs, env, boot, pw, db, rbac, audit,
                   logins, wrong, ended>>

DoAuthenticateRequest ==
    \E i \in issued : AuthenticateRequest(<<"Bearer ", i.accessToken>>)

\* The clock is taken to the expiry of an access token issued at 0 and one
\* second past it
RevokeHorizon == ACCESS_TOKEN_TTL + 1

RevokeTick ==
    \E d \in {1, ACCESS_TOKEN_TTL, ACCESS_TOKEN_TTL + 1} :
        /\ clock + d \in {ACCESS_TOKEN_TTL, RevokeHorizon}
        /\ Tick(d, MaxTicks)

RevokeNext ==
    \/ LockLogin
    \/ DoLogout
    \/ DoChangePassword
    \/ DoDeactivate
    \/ RevokeTick
    \/ DoAuthenticateRequest

RevokeSpec == Init /\ [][RevokeNext]_vars

\* C32: authenticate passes a request on exactly when its access token was
\* issued by the service and the clock is not past the expiry embedded in
\* the token, whatever the credential record of the account holds: logged
\* out, secret changed, deactivated or locked.
AuthenticateIgnoresRecord ==
    \A i \in issued :
        LET out == authenticate(Arrived(<<"Bearer ", i.accessToken>>), clock)
            payload == JSONparse(B64Decode(Split(i.accessToken)[2]))[1]
        IN  IF payload.exp >= clock
            THEN /\ out.authenticated
                 /\ out.status = 0
                 /\ out.at = 2
                 /\ out.accessContext = <<[userId |-> payload.sub, roleCodes |-> payload.roles]>>
            ELSE /\ ~out.authenticated
                 /\ out.status = 401
                 /\ out.error = "Invalid or expired token"

\* A request has been passed on by authenticate with the access token of an
\* account that is by then logged out, deactivated, locked and given a new
\* secret.
RevokedAccountAuthenticated ==
    /\ http.authenticated
    /\ http.chain = <<"authenticate", "handler">>
    /\ \E u \in {http.user[1].sub} :
         /\ ended[u]
         /\ users[u].refreshToken = NoToken
         /\ ~users[u].isActive
         /\ LockedOut(users[u], clock)
         /\ users[u].passwordHash # hashPassword("correct-horse", InitialSalt)

\* ------------------------------------------------------------------------
\* data_access_policies.scope_type is VARCHAR(20) NOT NULL with no check
\* constraint: a row may hold a kind that scopePriority does not list
\* ------------------------------------------------------------------------
StoredScopeTypes == ScopeTypes \cup {"ward"}

DoAddStoredPolicy ==
    \E id \in PolicyIds, roleId \in RoleIds, resource \in Resources,
       scopeType \in StoredScopeTypes, scopeValue \in ScopeValues :
        AddPolicy(id, roleId, resource, scopeType, scopeValue)

StoredScopeNext == DoAddStoredPolicy \/ DoResolveScope

StoredScopeSpec == Init /\ [][StoredScopeNext]_vars

\* C33: when a policy of kind all applies to one of the context's roles on
\* the resource, getDataScope answers with kind all, whatever other policies
\* apply, kinds outside the four known ones included.
AllAlwaysWins ==
    (rbac.fn = "getDataScope"
        /\ \E p \in ApplicablePolicies(rbac.ctx, rbac.check.resource) : p.scopeType = "all") =>
        /\ rbac.result # NoScope
        /\ rbac.result[1].scopeType = "all"

\* ------------------------------------------------------------------------
\* POST /api/auth/password with every kind of body and bearer
\* ------------------------------------------------------------------------
\* The user id of an access token whose row is no longer in the table
DeletedUserId == 0

\* JSON bodies: a secret, or the field missing
BodySecrets == Secrets \cup {""}
BodyNewSecrets == NewSecrets \cup {""}

\* verifyPassword is not reached with a missing field
CheckField(currentPassword) ==
    IF currentPassword = ""
    THEN [u \in UserIds |-> [threw |-> FALSE, valid |-> FALSE]]
    ELSE CheckCurrent(currentPassword)

\* The payloads verifyToken gives for the bearers a client may send: none, a
\* handed-out token, an access token of a deleted row
Bearers ==
    {<<>>, verifyToken(generateAccessToken(ClaimsOf(DeletedUserId, {}), clock), clock)}
        \cup {verifyToken(t, clock) : t \in HandedOut}

AnyChangePassword ==
    \E payload \in Bearers, c \in BodySecrets, n \in BodyNewSecrets, s \in Salts :
        \E check \in {CheckField(c)},
           newHash \in {IF n = "" THEN <<>> ELSE hashPassword(n, s)} :
            ChangePassword(payload, c, check, n, newHash)

AnyPasswordNext == LockLogin \/ AnyChangePassword \/ DoTick

AnyPasswordSpec == Init /\ [][AnyPasswordNext]_vars

\* C34: a password change that is not answered 200 (no or bad bearer, a
\* missing field, a new secret shorter than 8 characters, no row for the
\* user, a wrong current secret) leaves the users table as it was: hash,
\* refresh-token slot, failed-attempt counter and lockout expiry.
RejectedPasswordChangeChangesNothing ==
    \A payload \in Bearers, c \in BodySecrets, n \in BodyNewSecrets, s \in Salts :
        LET r == ChangePasswordResult(payload, c, CheckField(c), n,
                                      IF n = "" THEN <<>> ELSE hashPassword(n, s))
        IN  /\ r.resp.status # 200 => r.users = users /\ r.audit = <<>>
            /\ r.resp.status = 200 <=>
                   /\ payload # <<>>
                   /\ payload[1].sub \in UserIds
                   /\ c # "" /\ n # "" /\ Len(n) >= MIN_PASSWORD_LENGTH
                   /\ verifyPassword(c, users[payload[1].sub].passwordHash)

\* A change with a wrong current secret has been turned away on an account
\* with a stored refresh token and failed attempts on its counter.
WrongCurrentSecretRejected ==
    /\ resp.op = "password"
    /\ resp.status = 401
    /\ resp.error = "Current password is incorrect"
    /\ users[resp.sub].refreshToken # NoToken
    /\ users[resp.sub].failedLoginAttempts > 0

\* ------------------------------------------------------------------------
\* POST /api/auth/login when the insert into audit_logs may reject
\* ------------------------------------------------------------------------
\* writeAuditLog has no catch of its own: a rejected insert rejects the await
\* of the login handler, after the update of the row and before the
\* response, and the handler's catch answers 500.
LoginOutcome(username, password, auditThrows) ==
    LET r == LoginResult(username, password)
    IN  IF r.resp.status = 200 /\ auditThrows
        THEN [resp |-> [NoResp EXCEPT !.op = "login", !.status = 500, !.sub = r.resp.sub,
                                      !.error = "Internal server error"],
              users |-> r.users,
              audit |-> <<>>]
        ELSE r

LoginAudited(username, password, auditThrows) ==
    \E r \in {LoginOutcome(username, password, auditThrows)} :
        /\ \A u \in UserIds : r.users[u].failedLoginAttempts <= MaxFailed
        /\ resp' = r.resp
        /\ users' = r.users
        /\ audit' = r.audit
        /\ HandOut(r)
        /\ loginToken' = IF r.resp.pair = <<>> THEN loginToken
                         ELSE [loginToken EXCEPT ![r.resp.sub] = r.resp.pair[1].refreshToken]
        /\ ended' = IF r.resp.pair = <<>> THEN ended ELSE [ended EXCEPT ![r.resp.sub] = FALSE]
        /\ UNCHANGED <<clock, ticks, userRoles, loggedOut, lastLock, wire, verdict, reqs,
                   env, boot, pw, db, rbac, http, logins, wrong>>

DoLoginAudited ==
    \E n \in Usernames, p \in Secrets, auditThrows \in BOOLEAN : LoginAudited(n, p, auditThrows)

AuditSinkNext == DoLoginAudited \/ DoRefresh \/ DoTick

AuditSinkSpec == Init /\ [][AuditSinkNext]_vars

\* C35: a login that hands no token pair to the caller, rejected or ended by
\* a server error such as a failing audit insert, leaves the refresh-token
\* slot of every account as it was, so the stored token of a running session
\* stays the one its client holds.
TokenlessLoginKeepsSlot ==
    \A n \in Usernames, p \in Secrets, auditThrows \in BOOLEAN :
        LET r == LoginOutcome(n, p, auditThrows)
        IN  r.resp.pair = <<>> =>
                \A u \in UserIds :
                    users[u].refreshToken # NoToken =>
                        r.users[u].refreshToken = users[u].refreshToken

====
